---- MODULE Spec2Model ----
(***************************************************************************)
(* Model of the two audit engines of the repository and of its FAR         *)
(* utilities:                                                              *)
(*   src/bertaud_engine.py   BertaudAuditEngine (density audit)            *)
(*   src/financial_audit.py  FinancialParams, FinancialAudit               *)
(*   src/far_calculation.py  calculate_far, get_far_status, ...            *)
(*                                                                         *)
(* Python's float is an IEEE-754 binary64 number.  The engines compare     *)
(* floats against thresholds that are themselves float expressions         *)
(* (0.8 - 0.1, 1.2 - 0.1), so the arithmetic is modelled with its          *)
(* rounding: a float is a record [s, m, e] of value (-1)^s * m * 2^e with  *)
(* m an odd natural number below 2^53 (or zero), and every operation       *)
(* rounds its exact result to nearest, ties to even.  The power operator   *)
(* ** is the C library's pow, which is not correctly rounded: it is        *)
(* modelled by the steps and tables of that routine.  The builtin sum()    *)
(* adds floats one after the other on CPython before 3.12 and with a       *)
(* compensation from 3.12 on: a call that uses it may return either.       *)
(* Naturals wider than the checker's integers are little-endian sequences  *)
(* of 15-bit limbs.                                                        *)
(* Infinities, NaN, subnormals and overflow are outside the value ranges   *)
(* the model draws its inputs from, except float('inf') as a return value. *)
(***************************************************************************)
EXTENDS Integers, Sequences, FiniteSets, Bags, TLC

VARIABLES
    pc,        \* "idle" (no call in progress) or "returned" (a call has returned or raised)
    d0,        \* BertaudAuditEngine.d0 (set once by __init__)
    g,         \* BertaudAuditEngine.g  (set once by __init__)
    params,    \* the FinancialParams object last constructed, or None
    call,      \* the call last made: [op |-> name, args |-> arguments]
    result     \* its outcome: [kind |-> "return", value |-> ...] or [kind |-> "raise", exc |-> ...]

vars == <<pc, d0, g, params, call, result>>

\* Python's None, and a value that is not None
None == [some |-> FALSE]
Some(v) == [some |-> TRUE, v |-> v]

\* what a call ends with: the value returned, or the exception raised
Returns(v) == [kind |-> "return", value |-> v]
Raises(exc) == [kind |-> "raise", exc |-> exc]

-----------------------------------------------------------------------------
(* Natural numbers of any size.                                            *)

LimbBits == 15
Base == 32768

RECURSIVE Pow2(_)
Pow2(n) == IF n = 0 THEN 1 ELSE 2 * Pow2(n - 1)

Limb(a, i) == IF i <= Len(a) THEN a[i] ELSE 0

\* a without the zero limbs at its top
BTrim(a) ==
    SubSeq(a, 1, CHOOSE n \in 0..Len(a) :
                     /\ n = 0 \/ a[n] # 0
                     /\ \A i \in (n + 1)..Len(a) : a[i] = 0)

RECURSIVE BFromInt(_)
BFromInt(n) == IF n = 0 THEN <<>> ELSE <<n % Base>> \o BFromInt(n \div Base)

\* the carry out of limb i of the limb sums s: decided by the nearest limb
\* at or below i whose sum is not Base - 1
RECURSIVE CarryOut(_, _)
CarryOut(s, i) ==
    IF i = 0 THEN 0
    ELSE IF s[i] >= Base THEN 1
    ELSE IF s[i] < Base - 1 THEN 0
    ELSE CarryOut(s, i - 1)

BAddSums(s) ==
    [i \in 1..Len(s) |-> (s[i] + CarryOut(s, i - 1)) % Base]
        \o (IF CarryOut(s, Len(s)) = 1 THEN <<1>> ELSE <<>>)

BAdd(a, b) ==
    BAddSums(<<>> \o [i \in 1..(IF Len(a) > Len(b) THEN Len(a) ELSE Len(b)) |->
                          Limb(a, i) + Limb(b, i)])

\* the borrow out of limb i of a - b: decided by the nearest limb at or
\* below i where a and b differ
RECURSIVE BorrowOut(_, _, _)
BorrowOut(a, b, i) ==
    IF i = 0 THEN 0
    ELSE IF a[i] < Limb(b, i) THEN 1
    ELSE IF a[i] > Limb(b, i) THEN 0
    ELSE BorrowOut(a, b, i - 1)

\* a - b for a >= b
BSub(a, b) ==
    BTrim(<<>> \o [i \in 1..Len(a) |->
                       (a[i] - Limb(b, i) - BorrowOut(a, b, i - 1) + Base) % Base])

RECURSIVE BCmpAt(_, _, _)
BCmpAt(a, b, i) ==
    IF i = 0 THEN 0
    ELSE IF a[i] < b[i] THEN -1
    ELSE IF a[i] > b[i] THEN 1
    ELSE BCmpAt(a, b, i - 1)

\* -1, 0 or 1 as a < b, a = b, a > b
BCmp(a, b) ==
    IF Len(a) < Len(b) THEN -1
    ELSE IF Len(a) > Len(b) THEN 1
    ELSE BCmpAt(a, b, Len(a))

\* a * k for 0 <= k < Base: the low halves of the limb products plus their
\* high halves one limb up
BMulSmall(a, k) ==
    IF k = 0 \/ a = <<>> THEN <<>>
    ELSE BTrim(BAdd(<<>> \o [i \in 1..Len(a) |-> (a[i] * k) % Base],
                    <<0>> \o [i \in 1..Len(a) |-> (a[i] * k) \div Base]))

Zeros(n) == [i \in 1..n |-> 0]

\* the sum of the numbers f[i], i in DOMAIN f (a bag counts every i at
\* least once)
Sum(f) == BagCardinality([i \in DOMAIN f |-> f[i] + 1]) - Cardinality(DOMAIN f)

\* column k of the long multiplication of a by b: the low halves of the limb
\* products a[i] * b[k + 1 - i], and the high halves of those of column k - 1
Column(a, b, k) ==
    Sum([i \in {x \in 1..Len(a) : k + 1 - x \in 1..Len(b)} |->
            (a[i] * b[k + 1 - i]) % Base])
    + Sum([i \in {x \in 1..Len(a) : k - x \in 1..Len(b)} |->
            (a[i] * b[k - i]) \div Base])

\* the limbs of the number whose columns are c: what the columns keep, plus
\* what they pass one limb up
BMulColumns(c) ==
    BTrim(BAdd(<<>> \o [k \in 1..Len(c) |-> c[k] % Base],
               <<0>> \o [k \in 1..Len(c) |-> c[k] \div Base]))

\* a * b
BMul(a, b) ==
    IF a = <<>> \/ b = <<>> THEN <<>>
    ELSE BMulColumns(<<>> \o [k \in 1..(Len(a) + Len(b)) |-> Column(a, b, k)])

\* a^n by squaring: the square of a^(n div 2), times a for an odd n
RECURSIVE BPow(_, _)
BPow(a, n) ==
    IF n = 0 THEN <<1>>
    ELSE IF n = 1 THEN a
    ELSE CHOOSE power \in
             { IF n % 2 = 0 THEN BMul(half, half) ELSE BMul(a, BMul(half, half)) :
                 half \in {BPow(a, n \div 2)} } :
             TRUE

\* a * 2^n
BShl(a, n) ==
    IF a = <<>> THEN a
    ELSE Zeros(n \div LimbBits) \o BMulSmall(a, Pow2(n % LimbBits))

\* floor(a / (Base^q * k)) for k a power of 2 below Base: each limb takes
\* its own high bits and the low bits of the limb above
BShrBy(a, q, k) ==
    BTrim(<<>> \o [i \in 1..(Len(a) - q) |->
                       Limb(a, q + i) \div k + (Limb(a, q + i + 1) % k) * (Base \div k)])

\* floor(a / 2^n)
BShr(a, n) == BShrBy(a, n \div LimbBits, Pow2(n % LimbBits))

RECURSIVE IntBitLen(_)
IntBitLen(n) == IF n = 0 THEN 0 ELSE 1 + IntBitLen(n \div 2)

BitLen(a) ==
    IF a = <<>> THEN 0 ELSE LimbBits * (Len(a) - 1) + IntBitLen(a[Len(a)])

BIsOdd(a) == a # <<>> /\ a[1] % 2 = 1

RECURSIVE IntTz(_)
IntTz(n) == IF n % 2 = 1 THEN 0 ELSE 1 + IntTz(n \div 2)

\* the number of trailing zero bits of a > 0
RECURSIVE BTz(_)
BTz(a) == IF Head(a) = 0 THEN LimbBits + BTz(Tail(a)) ELSE IntTz(Head(a))

\* floor(rr / b) for rr < b * Base, where the top limb of b is at least
\* Base / 2: the quotient hi of the top limbs is at most 2 too large
QuotientCorrect(rr, b, hi) ==
    IF BCmp(BMulSmall(b, hi), rr) <= 0 THEN hi
    ELSE IF BCmp(BMulSmall(b, hi - 1), rr) <= 0 THEN hi - 1
    ELSE hi - 2

QuotientCap(rr, b, est) ==
    QuotientCorrect(rr, b, IF est > Base - 1 THEN Base - 1 ELSE est)

QuotientDigit(rr, b) ==
    QuotientCap(rr, b, (Limb(rr, Len(b) + 1) * Base + Limb(rr, Len(b))) \div b[Len(b)])

\* one step of the long division, on qr = <<the quotient limbs found, the
\* remainder>> and the dividend's next limb below them: the quotient limb of
\* rr = remainder * Base + limb, and what is left of rr
BDivModEmit(b, q, rr, d) == << <<d>> \o q, BSub(rr, BMulSmall(b, d)) >>

BDivModStep(b, q, rr) ==
    IF BCmp(rr, b) < 0 THEN << <<0>> \o q, rr >>
    ELSE BDivModEmit(b, q, rr, QuotientDigit(rr, b))

\* long division over the limbs hi down to lo of a, from qr for the limbs
\* above hi (the limbs are run as an upper half, then a lower half)
RECURSIVE BDivModAt(_, _, _, _, _)
BDivModAt(a, b, hi, lo, qr) ==
    IF hi < lo THEN qr
    ELSE IF hi = lo THEN BDivModStep(b, qr[1], BTrim(<<a[hi]>> \o qr[2]))
    ELSE CHOOSE low \in
             { BDivModAt(a, b, (hi + lo) \div 2, lo, top) :
                 top \in {BDivModAt(a, b, hi, (hi + lo) \div 2 + 1, qr)} } :
             TRUE

BDivModExact(qr) == <<BTrim(qr[1]), qr[2] = <<>> >>

BDivModNormal(a, b) == BDivModExact(BDivModAt(a, b, Len(a), 1, <<(<<>>), (<<>>)>>))

\* <<floor(a / b), whether b divides a>> for b > 0: both are shifted left
\* until the top limb of b is at least Base / 2
BDivModBy(a, b, sh) == BDivModNormal(BShl(a, sh), BShl(b, sh))

BDivMod(a, b) == BDivModBy(a, b, LimbBits - IntBitLen(b[Len(b)]))

-----------------------------------------------------------------------------
(* Python floats (binary64), rounded to nearest, ties to even.             *)

MantBits == 53

FZero == [s |-> 0, m |-> <<>>, e |-> 0]

\* the record of (-1)^s * m * 2^e with m made odd
CanonAt(s, m, e, t) == [s |-> s, m |-> BShr(m, t), e |-> e + t]

Canon(s, m, e) == IF m = <<>> THEN FZero ELSE CanonAt(s, m, e, BTz(m))

\* q rounded up when the remainder of m is above half of 2^sh, or is half
\* and q is odd
RoundUp(q, c) == IF c > 0 \/ (c = 0 /\ BIsOdd(q)) THEN BAdd(q, <<1>>) ELSE q

RoundQuotient(m, sh, q) ==
    RoundUp(q, BCmp(BSub(m, BShl(q, sh)), BShl(<<1>>, sh - 1)))

FRoundAt(s, m, e, sh) ==
    IF sh <= 0 THEN Canon(s, m, e)
    ELSE Canon(s, RoundQuotient(m, sh, BShr(m, sh)), e + sh)

\* the float nearest to (-1)^s * m * 2^e
FRound(s, m, e) == FRoundAt(s, m, e, BitLen(m) - MantBits)

\* float(n) of a Python int
FInt(n) == IF n < 0 THEN Canon(1, BFromInt(-n), 0) ELSE Canon(0, BFromInt(n), 0)

FIsZero(a) == a.m = <<>>
FNeg(a) == IF FIsZero(a) THEN a ELSE [a EXCEPT !.s = 1 - a.s]
FAbs(a) == [a EXCEPT !.s = 0]

\* -1, 0, 1 as |a| < |b|, |a| = |b|, |a| > |b|
FCmpAt(a, b, lo) == BCmp(BShl(a.m, a.e - lo), BShl(b.m, b.e - lo))

FCmpTop(a, b, ta, tb) ==
    IF ta < tb THEN -1
    ELSE IF ta > tb THEN 1
    ELSE FCmpAt(a, b, IF a.e < b.e THEN a.e ELSE b.e)

FCmpMag(a, b) ==
    IF FIsZero(a) THEN (IF FIsZero(b) THEN 0 ELSE -1)
    ELSE IF FIsZero(b) THEN 1
    ELSE FCmpTop(a, b, BitLen(a.m) + a.e, BitLen(b.m) + b.e)

\* -1, 0, 1 as a < b, a = b, a > b
FCmp(a, b) ==
    IF a.s # b.s THEN (IF a.s = 1 THEN -1 ELSE 1)
    ELSE IF a.s = 0 THEN FCmpMag(a, b) ELSE FCmpMag(b, a)

FLt(a, b) == FCmp(a, b) < 0
FLe(a, b) == FCmp(a, b) <= 0
FGt(a, b) == FCmp(a, b) > 0
FGe(a, b) == FCmp(a, b) >= 0

\* the exact sum of the magnitudes x and y carrying signs sa and sb, both
\* scaled by 2^lo, as an unrounded <<sign, mantissa, exponent>>
AddSigned(sa, x, sb, y, lo, c) ==
    IF sa = sb THEN <<sa, BAdd(x, y), lo>>
    ELSE IF c = 0 THEN <<0, <<>>, 0>>
    ELSE IF c > 0 THEN <<sa, BSub(x, y), lo>>
    ELSE <<sb, BSub(y, x), lo>>

AddAligned(sa, x, sb, y, lo) == AddSigned(sa, x, sb, y, lo, BCmp(x, y))

AddAt(a, b, lo) == AddAligned(a.s, BShl(a.m, a.e - lo), b.s, BShl(b.m, b.e - lo), lo)

AddRaw(a, b) ==
    IF FIsZero(a) THEN <<b.s, b.m, b.e>>
    ELSE IF FIsZero(b) THEN <<a.s, a.m, a.e>>
    ELSE AddAt(a, b, IF a.e < b.e THEN a.e ELSE b.e)

FRoundRaw(r) == FRound(r[1], r[2], r[3])

\* a + b
FAdd(a, b) == IF FIsZero(a) /\ FIsZero(b) THEN FZero ELSE FRoundRaw(AddRaw(a, b))

\* a - b
FSub(a, b) == FAdd(a, FNeg(b))

\* a * b
FMul(a, b) ==
    IF FIsZero(a) \/ FIsZero(b) THEN FZero
    ELSE FRound((a.s + b.s) % 2, BMul(a.m, b.m), a.e + b.e)

\* twice the quotient, plus one when the division left a remainder
FDivSticky(d) == BAdd(BAdd(d[1], d[1]), IF d[2] THEN <<>> ELSE <<1>>)

FDivAt(a, b, k) ==
    CHOOSE quotient \in
        { FRound((a.s + b.s) % 2, FDivSticky(d), a.e - b.e - k - 1) :
            d \in {BDivMod(BShl(a.m, k), b.m)} } :
        TRUE

\* a / b (Python raises ZeroDivisionError for b = 0)
FDiv(a, b) ==
    IF FIsZero(b) THEN Raises("ZeroDivisionError")
    ELSE IF FIsZero(a) THEN FZero
    ELSE FDivAt(a, b, MantBits + 3 + BitLen(b.m))

\* the same operations without rounding, on any m * 2^e: what the claims
\* measure the floats against
CanonRaw(r) == Canon(r[1], r[2], r[3])
XAdd(a, b) == CanonRaw(AddRaw(a, b))
XSub(a, b) == XAdd(a, FNeg(b))
XMul(a, b) ==
    IF FIsZero(a) \/ FIsZero(b) THEN FZero
    ELSE Canon((a.s + b.s) % 2, BMul(a.m, b.m), a.e + b.e)
XPow2(n) == [s |-> 0, m |-> <<1>>, e |-> n]

\* the float nearest to a^n for n >= 0, the exact power rounded once
FPowNearest(a, n) ==
    IF n = 0 THEN FInt(1)
    ELSE IF FIsZero(a) THEN FZero
    ELSE FRound(IF n % 2 = 0 THEN 0 ELSE a.s, BPow(a.m, n), a.e * n)

\* the float a decimal literal n/d denotes, e.g. 0.8 is FDec(8, 10)
FDec(n, d) == FDiv(FInt(n), FInt(d))

-----------------------------------------------------------------------------
(* Python's float ** int.                                                  *)

\* the C library's pow, which float ** int calls on |a| (Objects/floatobject.c,
\* float_pow): glibc 2.28 and later, sysdeps/ieee754/dbl-64/e_pow.c, as built
\* for processors with fused multiply-add.  Its result is within one unit in
\* the last place of the exact power, and is not always the nearest float.

\* a * b + c rounded once (the product of two odd significands is odd)
FMA(a, b, c) ==
    IF FIsZero(a) \/ FIsZero(b) THEN c
    ELSE FRoundRaw(AddRaw([s |-> (a.s + b.s) % 2, m |-> BMul(a.m, b.m), e |-> a.e + b.e], c))

\* the int a float below 2^30 in magnitude holds
FToInt(a) ==
    IF FIsZero(a) THEN 0
    ELSE (IF a.s = 1 THEN -1 ELSE 1) * (Limb(a.m, 1) + Base * Limb(a.m, 2)) * Pow2(a.e)

\* the top 21 bits of the 53-bit significand of a
TopBits(a) ==
    IF BitLen(a.m) >= 21
    THEN Limb(BShr(a.m, BitLen(a.m) - 21), 1) + Base * Limb(BShr(a.m, BitLen(a.m) - 21), 2)
    ELSE (Limb(a.m, 1) + Base * Limb(a.m, 2)) * Pow2(21 - BitLen(a.m))

\* pow_log_data.c: ln2hi, ln2lo, poly
Ln2hi == [s |-> 0, m |-> <<24391, 4287, 2839>>, e |-> -42]
Ln2lo == [s |-> 0, m |-> <<30323, 29304, 15573, 15>>, e |-> -93]
LogPolyA ==
    << [s |-> 1, m |-> <<1>>, e |-> -1],
       [s |-> 1, m |-> <<10923, 21845, 10922, 5>>, e |-> -48],
       [s |-> 0, m |-> <<3, 0, 0, 64>>, e |-> -52],
       [s |-> 0, m |-> <<10919, 6489, 13107, 102>>, e |-> -52],
       [s |-> 1, m |-> <<21053, 21801, 10922, 85>>, e |-> -52],
       [s |-> 1, m |-> <<17897, 13968, 9582, 146>>, e |-> -52],
       [s |-> 0, m |-> <<16323, 5708, 174, 128>>, e |-> -52] >>

\* pow_log_data.c: tab, the rows <<invc, logc, logctail>> of the 128
\* subintervals of [0x1.69555p-1, 0x1.69555p0)
LogTab ==
    << <<[s |-> 0, m |-> <<181>>, e |-> -7],
          [s |-> 1, m |-> <<22329, 8380, 2838>>, e |-> -43],
          [s |-> 0, m |-> <<28333, 4256, 21921, 1>>, e |-> -93]>>,
       <<[s |-> 0, m |-> <<45>>, e |-> -5],
          [s |-> 1, m |-> <<27393, 28527, 2792>>, e |-> -43],
          [s |-> 1, m |-> <<1977, 3470, 5281, 7>>, e |-> -93]>>,
       <<[s |-> 0, m |-> <<179>>, e |-> -7],
          [s |-> 1, m |-> <<26795, 7621, 2747>>, e |-> -43],
          [s |-> 1, m |-> <<20589, 11116, 2707, 155>>, e |-> -97]>>,
       <<[s |-> 0, m |-> <<89>>, e |-> -6],
          [s |-> 1, m |-> <<26047, 11105, 2701>>, e |-> -43],
          [s |-> 1, m |-> <<26581, 15712, 5010, 180>>, e |-> -101]>>,
       <<[s |-> 0, m |-> <<177>>, e |-> -7],
          [s |-> 1, m |-> <<12015, 6117, 2655>>, e |-> -43],
          [s |-> 1, m |-> <<18935, 6450, 877, 5>>, e |-> -94]>>,
       <<[s |-> 0, m |-> <<11>>, e |-> -3],
          [s |-> 1, m |-> <<4323, 6332, 652>>, e |-> -41],
          [s |-> 0, m |-> <<8499, 9254, 22575, 39>>, e |-> -96]>>,
       <<[s |-> 0, m |-> <<175>>, e |-> -7],
          [s |-> 1, m |-> <<20693, 3105, 2562>>, e |-> -43],
          [s |-> 0, m |-> <<1437, 28034, 1511, 113>>, e |-> -101]>>,
       <<[s |-> 0, m |-> <<87>>, e |-> -6],
          [s |-> 1, m |-> <<11561, 4885, 2515>>, e |-> -43],
          [s |-> 0, m |-> <<3235, 26725, 5688, 4>>, e |-> -92]>>,
       <<[s |-> 0, m |-> <<173>>, e |-> -7],
          [s |-> 1, m |-> <<13617, 8054, 154>>, e |-> -39],
          [s |-> 0, m |-> <<16457, 21701, 12955, 85>>, e |-> -96]>>,
       <<[s |-> 0, m |-> <<43>>, e |-> -5],
          [s |-> 1, m |-> <<22281, 3627, 605>>, e |-> -41],
          [s |-> 0, m |-> <<25979, 9837, 15759, 22>>, e |-> -94]>>,
       <<[s |-> 0, m |-> <<171>>, e |-> -7],
          [s |-> 1, m |-> <<31697, 22148, 2372>>, e |-> -43],
          [s |-> 0, m |-> <<12351, 28063, 10322, 174>>, e |-> -98]>>,
       <<[s |-> 0, m |-> <<171>>, e |-> -7],
          [s |-> 1, m |-> <<31697, 22148, 2372>>, e |-> -43],
          [s |-> 0, m |-> <<12351, 28063, 10322, 174>>, e |-> -98]>>,
       <<[s |-> 0, m |-> <<85>>, e |-> -6],
          [s |-> 1, m |-> <<31215, 20606, 2324>>, e |-> -43],
          [s |-> 1, m |-> <<27963, 10323, 13384, 89>>, e |-> -97]>>,
       <<[s |-> 0, m |-> <<169>>, e |-> -7],
          [s |-> 1, m |-> <<11571, 9776, 2276>>, e |-> -43],
          [s |-> 1, m |-> <<21761, 13427, 12220, 63>>, e |-> -96]>>,
       <<[s |-> 0, m |-> <<21>>, e |-> -4],
          [s |-> 1, m |-> <<30069, 22314, 2227>>, e |-> -43],
          [s |-> 0, m |-> <<10895, 18032, 18417, 15>>, e |-> -94]>>,
       <<[s |-> 0, m |-> <<167>>, e |-> -7],
          [s |-> 1, m |-> <<13769, 25342, 2178>>, e |-> -43],
          [s |-> 1, m |-> <<11571, 32005, 20873, 90>>, e |-> -96]>>,
       <<[s |-> 0, m |-> <<83>>, e |-> -6],
          [s |-> 1, m |-> <<10041, 25756, 1064>>, e |-> -42],
          [s |-> 1, m |-> <<391, 32500, 22492, 113>>, e |-> -98]>>,
       <<[s |-> 0, m |-> <<165>>, e |-> -7],
          [s |-> 1, m |-> <<19277, 1202, 1040>>, e |-> -42],
          [s |-> 1, m |-> <<11647, 15848, 23266, 129>>, e |-> -100]>>,
       <<[s |-> 0, m |-> <<165>>, e |-> -7],
          [s |-> 1, m |-> <<19277, 1202, 1040>>, e |-> -42],
          [s |-> 1, m |-> <<11647, 15848, 23266, 129>>, e |-> -100]>>,
       <<[s |-> 0, m |-> <<41>>, e |-> -5],
          [s |-> 1, m |-> <<13689, 18627, 507>>, e |-> -41],
          [s |-> 0, m |-> <<15495, 22322, 23722, 234>>, e |-> -99]>>,
       <<[s |-> 0, m |-> <<163>>, e |-> -7],
          [s |-> 1, m |-> <<24291, 2780, 990>>, e |-> -42],
          [s |-> 0, m |-> <<11209, 20035, 9911, 54>>, e |-> -95]>>,
       <<[s |-> 0, m |-> <<81>>, e |-> -6],
          [s |-> 1, m |-> <<25263, 24813, 1929>>, e |-> -43],
          [s |-> 1, m |-> <<32753, 27271, 19411, 11>>, e |-> -94]>>,
       <<[s |-> 0, m |-> <<161>>, e |-> -7],
          [s |-> 1, m |-> <<11583, 24843, 469>>, e |-> -41],
          [s |-> 0, m |-> <<26651, 30612, 27206, 141>>, e |-> -97]>>,
       <<[s |-> 0, m |-> <<5>>, e |-> -2],
          [s |-> 1, m |-> <<15573, 32636, 913>>, e |-> -42],
          [s |-> 0, m |-> <<24845, 13391, 31055, 46>>, e |-> -95]>>,
       <<[s |-> 0, m |-> <<5>>, e |-> -2],
          [s |-> 1, m |-> <<15573, 32636, 913>>, e |-> -42],
          [s |-> 0, m |-> <<24845, 13391, 31055, 46>>, e |-> -95]>>,
       <<[s |-> 0, m |-> <<159>>, e |-> -7],
          [s |-> 1, m |-> <<17113, 20686, 1776>>, e |-> -43],
          [s |-> 0, m |-> <<14223, 25367, 15040, 202>>, e |-> -98]>>,
       <<[s |-> 0, m |-> <<79>>, e |-> -6],
          [s |-> 1, m |-> <<14851, 7754, 431>>, e |-> -41],
          [s |-> 0, m |-> <<18483, 16333, 7366, 105>>, e |-> -103]>>,
       <<[s |-> 0, m |-> <<157>>, e |-> -7],
          [s |-> 1, m |-> <<32299, 30595, 1672>>, e |-> -43],
          [s |-> 1, m |-> <<24821, 23622, 6345, 86>>, e |-> -96]>>,
       <<[s |-> 0, m |-> <<157>>, e |-> -7],
          [s |-> 1, m |-> <<32299, 30595, 1672>>, e |-> -43],
          [s |-> 1, m |-> <<24821, 23622, 6345, 86>>, e |-> -96]>>,
       <<[s |-> 0, m |-> <<39>>, e |-> -5],
          [s |-> 1, m |-> <<20293, 19283, 1620>>, e |-> -43],
          [s |-> 1, m |-> <<21731, 2435, 18276, 214>>, e |-> -97]>>,
       <<[s |-> 0, m |-> <<155>>, e |-> -7],
          [s |-> 1, m |-> <<21005, 29708, 1567>>, e |-> -43],
          [s |-> 0, m |-> <<31241, 32695, 30461, 221>>, e |-> -97]>>,
       <<[s |-> 0, m |-> <<77>>, e |-> -6],
          [s |-> 1, m |-> <<4231, 14480, 757>>, e |-> -42],
          [s |-> 0, m |-> <<26955, 7316, 28104, 27>>, e |-> -94]>>,
       <<[s |-> 0, m |-> <<77>>, e |-> -6],
          [s |-> 1, m |-> <<4231, 14480, 757>>, e |-> -42],
          [s |-> 0, m |-> <<26955, 7316, 28104, 27>>, e |-> -94]>>,
       <<[s |-> 0, m |-> <<153>>, e |-> -7],
          [s |-> 1, m |-> <<29085, 16892, 1461>>, e |-> -43],
          [s |-> 1, m |-> <<28979, 9138, 18645, 67>>, e |-> -97]>>,
       <<[s |-> 0, m |-> <<19>>, e |-> -4],
          [s |-> 1, m |-> <<2681, 26126, 1407>>, e |-> -43],
          [s |-> 1, m |-> <<20537, 15904, 30990, 244>>, e |-> -98]>>,
       <<[s |-> 0, m |-> <<19>>, e |-> -4],
          [s |-> 1, m |-> <<2681, 26126, 1407>>, e |-> -43],
          [s |-> 1, m |-> <<20537, 15904, 30990, 244>>, e |-> -98]>>,
       <<[s |-> 0, m |-> <<151>>, e |-> -7],
          [s |-> 1, m |-> <<14875, 23740, 1353>>, e |-> -43],
          [s |-> 1, m |-> <<23439, 8206, 31278, 134>>, e |-> -97]>>,
       <<[s |-> 0, m |-> <<75>>, e |-> -6],
          [s |-> 1, m |-> <<22935, 13485, 162>>, e |-> -40],
          [s |-> 0, m |-> <<24079, 12442, 3265, 46>>, e |-> -96]>>,
       <<[s |-> 0, m |-> <<75>>, e |-> -6],
          [s |-> 1, m |-> <<22935, 13485, 162>>, e |-> -40],
          [s |-> 0, m |-> <<24079, 12442, 3265, 46>>, e |-> -96]>>,
       <<[s |-> 0, m |-> <<149>>, e |-> -7],
          [s |-> 1, m |-> <<489, 16260, 1244>>, e |-> -43],
          [s |-> 0, m |-> <<10781, 19751, 28940, 69>>, e |-> -99]>>,
       <<[s |-> 0, m |-> <<37>>, e |-> -5],
          [s |-> 1, m |-> <<511, 10847, 1189>>, e |-> -43],
          [s |-> 1, m |-> <<14465, 1500, 18072, 20>>, e |-> -94]>>,
       <<[s |-> 0, m |-> <<147>>, e |-> -7],
          [s |-> 1, m |-> <<10619, 29357, 566>>, e |-> -42],
          [s |-> 1, m |-> <<20939, 6161, 328, 122>>, e |-> -96]>>,
       <<[s |-> 0, m |-> <<147>>, e |-> -7],
          [s |-> 1, m |-> <<10619, 29357, 566>>, e |-> -42],
          [s |-> 1, m |-> <<20939, 6161, 328, 122>>, e |-> -96]>>,
       <<[s |-> 0, m |-> <<73>>, e |-> -6],
          [s |-> 1, m |-> <<19721, 28623, 1077>>, e |-> -43],
          [s |-> 0, m |-> <<5885, 17524, 27030, 52>>, e |-> -97]>>,
       <<[s |-> 0, m |-> <<73>>, e |-> -6],
          [s |-> 1, m |-> <<19721, 28623, 1077>>, e |-> -43],
          [s |-> 0, m |-> <<5885, 17524, 27030, 52>>, e |-> -97]>>,
       <<[s |-> 0, m |-> <<145>>, e |-> -7],
          [s |-> 1, m |-> <<3807, 18707, 1021>>, e |-> -43],
          [s |-> 1, m |-> <<6649, 23715, 27304, 85>>, e |-> -96]>>,
       <<[s |-> 0, m |-> <<9>>, e |-> -3],
          [s |-> 1, m |-> <<28203, 19982, 120>>, e |-> -40],
          [s |-> 0, m |-> <<15, 5496, 13356, 52>>, e |-> -95]>>,
       <<[s |-> 0, m |-> <<9>>, e |-> -3],
          [s |-> 1, m |-> <<28203, 19982, 120>>, e |-> -40],
          [s |-> 0, m |-> <<15, 5496, 13356, 52>>, e |-> -95]>>,
       <<[s |-> 0, m |-> <<143>>, e |-> -7],
          [s |-> 1, m |-> <<15727, 29348, 453>>, e |-> -42],
          [s |-> 1, m |-> <<24323, 22623, 6318, 116>>, e |-> -97]>>,
       <<[s |-> 0, m |-> <<71>>, e |-> -6],
          [s |-> 1, m |-> <<21079, 9939, 850>>, e |-> -43],
          [s |-> 0, m |-> <<30041, 31254, 7322, 21>>, e |-> -94]>>,
       <<[s |-> 0, m |-> <<71>>, e |-> -6],
          [s |-> 1, m |-> <<21079, 9939, 850>>, e |-> -43],
          [s |-> 0, m |-> <<30041, 31254, 7322, 21>>, e |-> -94]>>,
       <<[s |-> 0, m |-> <<141>>, e |-> -7],
          [s |-> 1, m |-> <<12685, 13405, 792>>, e |-> -43],
          [s |-> 0, m |-> <<27341, 21323, 15892, 19>>, e |-> -95]>>,
       <<[s |-> 0, m |-> <<141>>, e |-> -7],
          [s |-> 1, m |-> <<12685, 13405, 792>>, e |-> -43],
          [s |-> 0, m |-> <<27341, 21323, 15892, 19>>, e |-> -95]>>,
       <<[s |-> 0, m |-> <<35>>, e |-> -5],
          [s |-> 1, m |-> <<22315, 3368, 734>>, e |-> -43],
          [s |-> 1, m |-> <<14829, 18739, 11887, 90>>, e |-> -96]>>,
       <<[s |-> 0, m |-> <<139>>, e |-> -7],
          [s |-> 1, m |-> <<30769, 12403, 675>>, e |-> -43],
          [s |-> 0, m |-> <<24151, 17292, 2413, 248>>, e |-> -98]>>,
       <<[s |-> 0, m |-> <<139>>, e |-> -7],
          [s |-> 1, m |-> <<30769, 12403, 675>>, e |-> -43],
          [s |-> 0, m |-> <<24151, 17292, 2413, 248>>, e |-> -98]>>,
       <<[s |-> 0, m |-> <<69>>, e |-> -6],
          [s |-> 1, m |-> <<12511, 7545, 616>>, e |-> -43],
          [s |-> 0, m |-> <<5087, 6642, 31595, 226>>, e |-> -97]>>,
       <<[s |-> 0, m |-> <<69>>, e |-> -6],
          [s |-> 1, m |-> <<12511, 7545, 616>>, e |-> -43],
          [s |-> 0, m |-> <<5087, 6642, 31595, 226>>, e |-> -97]>>,
       <<[s |-> 0, m |-> <<137>>, e |-> -7],
          [s |-> 1, m |-> <<23879, 5339, 139>>, e |-> -41],
          [s |-> 0, m |-> <<8969, 27935, 29049, 163>>, e |-> -98]>>,
       <<[s |-> 0, m |-> <<17>>, e |-> -4],
          [s |-> 1, m |-> <<35, 10435, 248>>, e |-> -42],
          [s |-> 0, m |-> <<3729, 1645, 26234, 234>>, e |-> -97]>>,
       <<[s |-> 0, m |-> <<17>>, e |-> -4],
          [s |-> 1, m |-> <<35, 10435, 248>>, e |-> -42],
          [s |-> 0, m |-> <<3729, 1645, 26234, 234>>, e |-> -97]>>,
       <<[s |-> 0, m |-> <<135>>, e |-> -7],
          [s |-> 1, m |-> <<25139, 2933, 218>>, e |-> -42],
          [s |-> 0, m |-> <<7187, 29419, 634, 57>>, e |-> -96]>>,
       <<[s |-> 0, m |-> <<135>>, e |-> -7],
          [s |-> 1, m |-> <<25139, 2933, 218>>, e |-> -42],
          [s |-> 0, m |-> <<7187, 29419, 634, 57>>, e |-> -96]>>,
       <<[s |-> 0, m |-> <<67>>, e |-> -6],
          [s |-> 1, m |-> <<22731, 8903, 375>>, e |-> -43],
          [s |-> 1, m |-> <<20727, 13554, 30860, 115>>, e |-> -96]>>,
       <<[s |-> 0, m |-> <<67>>, e |-> -6],
          [s |-> 1, m |-> <<22731, 8903, 375>>, e |-> -43],
          [s |-> 1, m |-> <<20727, 13554, 30860, 115>>, e |-> -96]>>,
       <<[s |-> 0, m |-> <<133>>, e |-> -7],
          [s |-> 1, m |-> <<26619, 29757, 313>>, e |-> -43],
          [s |-> 0, m |-> <<32597, 29990, 1391, 84>>, e |-> -99]>>,
       <<[s |-> 0, m |-> <<133>>, e |-> -7],
          [s |-> 1, m |-> <<26619, 29757, 313>>, e |-> -43],
          [s |-> 0, m |-> <<32597, 29990, 1391, 84>>, e |-> -99]>>,
       <<[s |-> 0, m |-> <<33>>, e |-> -5],
          [s |-> 1, m |-> <<25039, 24742, 15>>, e |-> -39],
          [s |-> 1, m |-> <<633, 15935, 38, 51>>, e |-> -95]>>,
       <<[s |-> 0, m |-> <<33>>, e |-> -5],
          [s |-> 1, m |-> <<25039, 24742, 15>>, e |-> -39],
          [s |-> 1, m |-> <<633, 15935, 38, 51>>, e |-> -95]>>,
       <<[s |-> 0, m |-> <<131>>, e |-> -7],
          [s |-> 1, m |-> <<4011, 25708, 189>>, e |-> -43],
          [s |-> 1, m |-> <<9785, 10229, 13650, 196>>, e |-> -97]>>,
       <<[s |-> 0, m |-> <<65>>, e |-> -6],
          [s |-> 1, m |-> <<11327, 24660, 31>>, e |-> -41],
          [s |-> 1, m |-> <<27047, 31593, 7804, 62>>, e |-> -100]>>,
       <<[s |-> 0, m |-> <<65>>, e |-> -6],
          [s |-> 1, m |-> <<11327, 24660, 31>>, e |-> -41],
          [s |-> 1, m |-> <<27047, 31593, 7804, 62>>, e |-> -100]>>,
       <<[s |-> 0, m |-> <<129>>, e |-> -7],
          [s |-> 1, m |-> <<9905, 31749, 7>>, e |-> -40],
          [s |-> 1, m |-> <<4153, 1773, 25151, 51>>, e |-> -96]>>,
       <<[s |-> 0, m |-> <<129>>, e |-> -7],
          [s |-> 1, m |-> <<9905, 31749, 7>>, e |-> -40],
          [s |-> 1, m |-> <<4153, 1773, 25151, 51>>, e |-> -96]>>,
       <<[s |-> 0, m |-> <<1>>, e |-> 0],
          FZero,
          FZero>>,
       <<[s |-> 0, m |-> <<1>>, e |-> 0],
          FZero,
          FZero>>,
       <<[s |-> 0, m |-> <<127>>, e |-> -7],
          [s |-> 0, m |-> <<30089, 8234, 64>>, e |-> -43],
          [s |-> 1, m |-> <<9597, 26215, 25525, 16>>, e |-> -95]>>,
       <<[s |-> 0, m |-> <<63>>, e |-> -6],
          [s |-> 0, m |-> <<12583, 345, 129>>, e |-> -43],
          [s |-> 1, m |-> <<31721, 1762, 14518, 79>>, e |-> -96]>>,
       <<[s |-> 0, m |-> <<125>>, e |-> -7],
          [s |-> 0, m |-> <<10441, 4682, 97>>, e |-> -42],
          [s |-> 1, m |-> <<781, 6445, 8378, 53>>, e |-> -95]>>,
       <<[s |-> 0, m |-> <<31>>, e |-> -5],
          [s |-> 0, m |-> <<10141, 2796, 260>>, e |-> -43],
          [s |-> 0, m |-> <<22355, 14819, 18177, 136>>, e |-> -99]>>,
       <<[s |-> 0, m |-> <<123>>, e |-> -7],
          [s |-> 0, m |-> <<27159, 26286, 40>>, e |-> -40],
          [s |-> 1, m |-> <<16293, 23919, 2873, 28>>, e |-> -94]>>,
       <<[s |-> 0, m |-> <<61>>, e |-> -6],
          [s |-> 0, m |-> <<21119, 9552, 393>>, e |-> -43],
          [s |-> 1, m |-> <<9853, 8372, 26199, 203>>, e |-> -98]>>,
       <<[s |-> 0, m |-> <<121>>, e |-> -7],
          [s |-> 0, m |-> <<14199, 23454, 460>>, e |-> -43],
          [s |-> 1, m |-> <<10247, 4016, 9161, 211>>, e |-> -98]>>,
       <<[s |-> 0, m |-> <<241>>, e |-> -8],
          [s |-> 0, m |-> <<27, 20878, 494>>, e |-> -43],
          [s |-> 1, m |-> <<15227, 8082, 17657, 240>>, e |-> -99]>>,
       <<[s |-> 0, m |-> <<239>>, e |-> -8],
          [s |-> 0, m |-> <<2611, 29629, 562>>, e |-> -43],
          [s |-> 1, m |-> <<7835, 11291, 18805, 169>>, e |-> -97]>>,
       <<[s |-> 0, m |-> <<237>>, e |-> -8],
          [s |-> 0, m |-> <<16015, 24410, 631>>, e |-> -43],
          [s |-> 0, m |-> <<20183, 19382, 8570, 230>>, e |-> -97]>>,
       <<[s |-> 0, m |-> <<235>>, e |-> -8],
          [s |-> 0, m |-> <<27837, 5540, 701>>, e |-> -43],
          [s |-> 1, m |-> <<3727, 15453, 21004, 113>>, e |-> -96]>>,
       <<[s |-> 0, m |-> <<117>>, e |-> -7],
          [s |-> 0, m |-> <<11179, 1688, 368>>, e |-> -42],
          [s |-> 0, m |-> <<30361, 10653, 15643, 112>>, e |-> -100]>>,
       <<[s |-> 0, m |-> <<29>>, e |-> -5],
          [s |-> 0, m |-> <<30053, 6898, 403>>, e |-> -42],
          [s |-> 0, m |-> <<9197, 15037, 8888, 76>>, e |-> -96]>>,
       <<[s |-> 0, m |-> <<115>>, e |-> -7],
          [s |-> 0, m |-> <<28011, 11400, 877>>, e |-> -43],
          [s |-> 1, m |-> <<26853, 22510, 16896, 156>>, e |-> -98]>>,
       <<[s |-> 0, m |-> <<229>>, e |-> -8],
          [s |-> 0, m |-> <<1777, 17088, 456>>, e |-> -42],
          [s |-> 0, m |-> <<11475, 3253, 6983, 178>>, e |-> -97]>>,
       <<[s |-> 0, m |-> <<227>>, e |-> -8],
          [s |-> 0, m |-> <<6225, 29592, 984>>, e |-> -43],
          [s |-> 1, m |-> <<12847, 2814, 14349, 7>>, e |-> -92]>>,
       <<[s |-> 0, m |-> <<113>>, e |-> -7],
          [s |-> 0, m |-> <<20191, 2323, 1021>>, e |-> -43],
          [s |-> 1, m |-> <<2813, 8002, 21337, 169>>, e |-> -97]>>,
       <<[s |-> 0, m |-> <<7>>, e |-> -3],
          [s |-> 0, m |-> <<4415, 30952, 546>>, e |-> -42],
          [s |-> 0, m |-> <<1017, 20013, 24305, 71>>, e |-> -96]>>,
       <<[s |-> 0, m |-> <<223>>, e |-> -8],
          [s |-> 0, m |-> <<25151, 17775, 1130>>, e |-> -43],
          [s |-> 0, m |-> <<9805, 8732, 10126, 57>>, e |-> -95]>>,
       <<[s |-> 0, m |-> <<221>>, e |-> -8],
          [s |-> 0, m |-> <<6413, 17796, 150>>, e |-> -40],
          [s |-> 0, m |-> <<13473, 5891, 30131, 156>>, e |-> -99]>>,
       <<[s |-> 0, m |-> <<55>>, e |-> -6],
          [s |-> 0, m |-> <<345, 16278, 1241>>, e |-> -43],
          [s |-> 0, m |-> <<29321, 18070, 16032, 177>>, e |-> -103]>>,
       <<[s |-> 0, m |-> <<109>>, e |-> -7],
          [s |-> 0, m |-> <<13115, 10160, 1316>>, e |-> -43],
          [s |-> 0, m |-> <<14031, 21823, 16828, 21>>, e |-> -94]>>,
       <<[s |-> 0, m |-> <<217>>, e |-> -8],
          [s |-> 0, m |-> <<18971, 31932, 1353>>, e |-> -43],
          [s |-> 0, m |-> <<32199, 19154, 20387, 177>>, e |-> -97]>>,
       <<[s |-> 0, m |-> <<215>>, e |-> -8],
          [s |-> 0, m |-> <<26817, 27095, 1429>>, e |-> -43],
          [s |-> 0, m |-> <<1487, 19215, 26565, 25>>, e |-> -95]>>,
       <<[s |-> 0, m |-> <<107>>, e |-> -7],
          [s |-> 0, m |-> <<14167, 593, 1468>>, e |-> -43],
          [s |-> 1, m |-> <<8673, 19256, 17975, 168>>, e |-> -97]>>,
       <<[s |-> 0, m |-> <<213>>, e |-> -8],
          [s |-> 0, m |-> <<21573, 12720, 1506>>, e |-> -43],
          [s |-> 1, m |-> <<17157, 24866, 6209, 227>>, e |-> -98]>>,
       <<[s |-> 0, m |-> <<211>>, e |-> -8],
          [s |-> 0, m |-> <<27449, 32095, 98>>, e |-> -39],
          [s |-> 1, m |-> <<11473, 21970, 30034, 185>>, e |-> -99]>>,
       <<[s |-> 0, m |-> <<105>>, e |-> -7],
          [s |-> 0, m |-> <<23799, 13493, 101>>, e |-> -39],
          [s |-> 0, m |-> <<32623, 12609, 18593, 191>>, e |-> -99]>>,
       <<[s |-> 0, m |-> <<13>>, e |-> -4],
          [s |-> 0, m |-> <<25687, 16083, 850>>, e |-> -42],
          [s |-> 1, m |-> <<8553, 8364, 18701, 195>>, e |-> -97]>>,
       <<[s |-> 0, m |-> <<207>>, e |-> -8],
          [s |-> 0, m |-> <<30141, 15114, 1740>>, e |-> -43],
          [s |-> 1, m |-> <<28885, 20140, 27418, 112>>, e |-> -98]>>,
       <<[s |-> 0, m |-> <<103>>, e |-> -7],
          [s |-> 0, m |-> <<16863, 2163, 890>>, e |-> -42],
          [s |-> 1, m |-> <<2395, 22868, 6024, 117>>, e |-> -96]>>,
       <<[s |-> 0, m |-> <<205>>, e |-> -8],
          [s |-> 0, m |-> <<28417, 32632, 1819>>, e |-> -43],
          [s |-> 1, m |-> <<5609, 17814, 22757, 71>>, e |-> -99]>>,
       <<[s |-> 0, m |-> <<203>>, e |-> -8],
          [s |-> 0, m |-> <<3401, 10166, 1900>>, e |-> -43],
          [s |-> 1, m |-> <<12341, 28203, 31915, 215>>, e |-> -97]>>,
       <<[s |-> 0, m |-> <<101>>, e |-> -7],
          [s |-> 0, m |-> <<32369, 25055, 1940>>, e |-> -43],
          [s |-> 0, m |-> <<8003, 27656, 1161, 9>>, e |-> -99]>>,
       <<[s |-> 0, m |-> <<201>>, e |-> -8],
          [s |-> 0, m |-> <<25821, 27483, 123>>, e |-> -39],
          [s |-> 1, m |-> <<3601, 19319, 1109, 209>>, e |-> -103]>>,
       <<[s |-> 0, m |-> <<25>>, e |-> -5],
          [s |-> 0, m |-> <<19259, 9101, 2022>>, e |-> -43],
          [s |-> 0, m |-> <<19955, 6465, 29435, 13>>, e |-> -94]>>,
       <<[s |-> 0, m |-> <<99>>, e |-> -7],
          [s |-> 0, m |-> <<2475, 19992, 2104>>, e |-> -43],
          [s |-> 0, m |-> <<20113, 11738, 29548, 196>>, e |-> -100]>>,
       <<[s |-> 0, m |-> <<197>>, e |-> -8],
          [s |-> 0, m |-> <<15115, 17110, 536>>, e |-> -41],
          [s |-> 0, m |-> <<27369, 11385, 25132, 184>>, e |-> -97]>>,
       <<[s |-> 0, m |-> <<49>>, e |-> -6],
          [s |-> 0, m |-> <<17661, 25504, 2187>>, e |-> -43],
          [s |-> 1, m |-> <<31751, 12754, 8462, 56>>, e |-> -95]>>,
       <<[s |-> 0, m |-> <<195>>, e |-> -8],
          [s |-> 0, m |-> <<30111, 22322, 2229>>, e |-> -43],
          [s |-> 0, m |-> <<5761, 28490, 27447, 220>>, e |-> -97]>>,
       <<[s |-> 0, m |-> <<97>>, e |-> -7],
          [s |-> 0, m |-> <<27469, 26200, 2271>>, e |-> -43],
          [s |-> 0, m |-> <<15799, 8847, 7093, 229>>, e |-> -97]>>,
       <<[s |-> 0, m |-> <<193>>, e |-> -8],
          [s |-> 0, m |-> <<8663, 4443, 2314>>, e |-> -43],
          [s |-> 0, m |-> <<23925, 14918, 4029, 106>>, e |-> -98]>>,
       <<[s |-> 0, m |-> <<191>>, e |-> -8],
          [s |-> 0, m |-> <<19913, 24079, 1199>>, e |-> -42],
          [s |-> 0, m |-> <<317, 9512, 7418, 53>>, e |-> -95]>>,
       <<[s |-> 0, m |-> <<95>>, e |-> -7],
          [s |-> 0, m |-> <<3739, 20254, 610>>, e |-> -41],
          [s |-> 1, m |-> <<10135, 13512, 28989, 24>>, e |-> -94]>>,
       <<[s |-> 0, m |-> <<189>>, e |-> -8],
          [s |-> 0, m |-> <<27617, 27886, 1242>>, e |-> -42],
          [s |-> 0, m |-> <<12025, 27708, 14182, 17>>, e |-> -95]>>,
       <<[s |-> 0, m |-> <<47>>, e |-> -6],
          [s |-> 0, m |-> <<29491, 19022, 1264>>, e |-> -42],
          [s |-> 0, m |-> <<12119, 23299, 15188, 48>>, e |-> -96]>>,
       <<[s |-> 0, m |-> <<187>>, e |-> -8],
          [s |-> 0, m |-> <<31421, 27912, 2572>>, e |-> -43],
          [s |-> 0, m |-> <<24733, 22817, 4315, 199>>, e |-> -99]>>,
       <<[s |-> 0, m |-> <<93>>, e |-> -7],
          [s |-> 0, m |-> <<20025, 25456, 2616>>, e |-> -43],
          [s |-> 1, m |-> <<22133, 4815, 7992, 249>>, e |-> -97]>>,
       <<[s |-> 0, m |-> <<185>>, e |-> -8],
          [s |-> 0, m |-> <<24947, 15379, 1330>>, e |-> -42],
          [s |-> 1, m |-> <<13865, 3461, 8329, 60>>, e |-> -95]>>,
       <<[s |-> 0, m |-> <<23>>, e |-> -5],
          [s |-> 0, m |-> <<14789, 10976, 676>>, e |-> -41],
          [s |-> 0, m |-> <<18265, 713, 31170, 245>>, e |-> -97]>>,
       <<[s |-> 0, m |-> <<183>>, e |-> -8],
          [s |-> 0, m |-> <<15501, 32490, 1374>>, e |-> -42],
          [s |-> 0, m |-> <<16623, 23738, 14263, 253>>, e |-> -98]>>,
       <<[s |-> 0, m |-> <<91>>, e |-> -7],
          [s |-> 0, m |-> <<31435, 23517, 698>>, e |-> -41],
          [s |-> 1, m |-> <<6519, 1106, 2858, 52>>, e |-> -97]>> >>

\* exp_data.c: invln2N, shift, negln2hiN, negln2loN, poly
InvLn2N == [s |-> 0, m |-> <<16767, 25899, 10894, 92>>, e |-> -44]
Shift == [s |-> 0, m |-> <<3>>, e |-> 51]
NegLn2hiN == [s |-> 1, m |-> <<32637, 11842, 44>>, e |-> -43]
NegLn2loN == [s |-> 1, m |-> <<7581, 15518, 28469, 115>>, e |-> -98]
ExpPolyC ==
    << [s |-> 0, m |-> <<32189, 32767, 32767, 255>>, e |-> -54],
       [s |-> 0, m |-> <<21775, 10922, 21845, 42>>, e |-> -53],
       [s |-> 0, m |-> <<11153, 7726, 21847, 170>>, e |-> -57],
       [s |-> 0, m |-> <<20503, 20297, 17477, 136>>, e |-> -59] >>

\* exp_data.c: tab, the rows <<tail, 2^(j/128)>> for j = 0..127 (the table
\* holds the bits of the second less j * 2^45)
ExpTab ==
    << <<FZero,
          [s |-> 0, m |-> <<1>>, e |-> 0]>>,
       <<[s |-> 0, m |-> <<24503, 6792, 30366, 108>>, e |-> -105],
          [s |-> 0, m |-> <<13109, 21494, 22774, 128>>, e |-> -52]>>,
       <<[s |-> 1, m |-> <<23645, 14769, 78, 139>>, e |-> -108],
          [s |-> 0, m |-> <<97, 31983, 12904, 129>>, e |-> -52]>>,
       <<[s |-> 1, m |-> <<26321, 8462, 31208, 130>>, e |-> -106],
          [s |-> 0, m |-> <<32645, 20700, 3159, 130>>, e |-> -52]>>,
       <<[s |-> 0, m |-> <<30227, 27343, 18760, 230>>, e |-> -107],
          [s |-> 0, m |-> <<24925, 27018, 22960, 32>>, e |-> -50]>>,
       <<[s |-> 1, m |-> <<18301, 9209, 7424, 111>>, e |-> -106],
          [s |-> 0, m |-> <<31599, 10717, 24790, 65>>, e |-> -51]>>,
       <<[s |-> 0, m |-> <<18529, 17357, 23865, 135>>, e |-> -109],
          [s |-> 0, m |-> <<13177, 17949, 17314, 16>>, e |-> -49]>>,
       <<[s |-> 0, m |-> <<21401, 13927, 3985, 133>>, e |-> -106],
          [s |-> 0, m |-> <<29571, 5517, 30971, 132>>, e |-> -52]>>,
       <<[s |-> 0, m |-> <<31597, 15110, 27289, 188>>, e |-> -106],
          [s |-> 0, m |-> <<2319, 23027, 21857, 133>>, e |-> -52]>>,
       <<[s |-> 0, m |-> <<31743, 18814, 13594, 61>>, e |-> -105],
          [s |-> 0, m |-> <<18423, 22244, 12872, 134>>, e |-> -52]>>,
       <<[s |-> 0, m |-> <<7377, 24671, 30965, 245>>, e |-> -112],
          [s |-> 0, m |-> <<26833, 13011, 18392, 67>>, e |-> -51]>>,
       <<[s |-> 1, m |-> <<28171, 4896, 3282, 208>>, e |-> -109],
          [s |-> 0, m |-> <<21275, 24573, 28058, 135>>, e |-> -52]>>,
       <<[s |-> 1, m |-> <<24199, 10799, 11428, 85>>, e |-> -105],
          [s |-> 0, m |-> <<23377, 8228, 19463, 136>>, e |-> -52]>>,
       <<[s |-> 1, m |-> <<27221, 6301, 958, 132>>, e |-> -110],
          [s |-> 0, m |-> <<3187, 24630, 10941, 34>>, e |-> -50]>>,
       <<[s |-> 1, m |-> <<31243, 14805, 4679, 71>>, e |-> -105],
          [s |-> 0, m |-> <<18799, 10986, 10323, 4>>, e |-> -47]>>,
       <<[s |-> 0, m |-> <<21935, 21176, 20367, 134>>, e |-> -107],
          [s |-> 0, m |-> <<3665, 4427, 27235, 138>>, e |-> -52]>>,
       <<[s |-> 1, m |-> <<12905, 31401, 3466, 16>>, e |-> -104],
          [s |-> 0, m |-> <<20859, 30970, 19168, 139>>, e |-> -52]>>,
       <<[s |-> 1, m |-> <<12861, 11196, 32705, 248>>, e |-> -107],
          [s |-> 0, m |-> <<18165, 14476, 5618, 70>>, e |-> -51]>>,
       <<[s |-> 0, m |-> <<21439, 32294, 9776, 220>>, e |-> -107],
          [s |-> 0, m |-> <<19317, 22239, 3439, 141>>, e |-> -52]>>,
       <<[s |-> 1, m |-> <<30099, 30225, 13112, 91>>, e |-> -105],
          [s |-> 0, m |-> <<5941, 16898, 15328, 35>>, e |-> -50]>>,
       <<[s |-> 0, m |-> <<20859, 29667, 23966, 6>>, e |-> -101],
          [s |-> 0, m |-> <<23765, 12648, 10510, 71>>, e |-> -51]>>,
       <<[s |-> 1, m |-> <<14493, 5900, 7691, 255>>, e |-> -107],
          [s |-> 0, m |-> <<22813, 17913, 13632, 143>>, e |-> -52]>>,
       <<[s |-> 0, m |-> <<17293, 2381, 15621, 211>>, e |-> -107],
          [s |-> 0, m |-> <<18027, 2146, 3191, 72>>, e |-> -51]>>,
       <<[s |-> 0, m |-> <<1149, 25032, 26646, 131>>, e |-> -107],
          [s |-> 0, m |-> <<28235, 4477, 16019, 72>>, e |-> -51]>>,
       <<[s |-> 0, m |-> <<10789, 29140, 3837, 45>>, e |-> -104],
          [s |-> 0, m |-> <<11335, 7069, 7229, 18>>, e |-> -49]>>,
       <<[s |-> 0, m |-> <<18557, 25832, 30819, 186>>, e |-> -107],
          [s |-> 0, m |-> <<9791, 8037, 18233, 146>>, e |-> -52]>>,
       <<[s |-> 0, m |-> <<29689, 6175, 3671, 65>>, e |-> -106],
          [s |-> 0, m |-> <<31965, 19396, 11541, 147>>, e |-> -52]>>,
       <<[s |-> 1, m |-> <<1071, 16241, 28918, 90>>, e |-> -105],
          [s |-> 0, m |-> <<25473, 17386, 4991, 148>>, e |-> -52]>>,
       <<[s |-> 0, m |-> <<11057, 23059, 24453, 151>>, e |-> -107],
          [s |-> 0, m |-> <<24289, 27199, 31351, 148>>, e |-> -52]>>,
       <<[s |-> 1, m |-> <<24573, 6767, 17206, 116>>, e |-> -111],
          [s |-> 0, m |-> <<11673, 31259, 11807, 9>>, e |-> -48]>>,
       <<[s |-> 0, m |-> <<685, 14598, 14210, 54>>, e |-> -105],
          [s |-> 0, m |-> <<779, 19912, 18966, 150>>, e |-> -52]>>,
       <<[s |-> 0, m |-> <<19343, 5021, 21066, 240>>, e |-> -109],
          [s |-> 0, m |-> <<6059, 10558, 22879, 75>>, e |-> -51]>>,
       <<[s |-> 0, m |-> <<21979, 19888, 6890, 77>>, e |-> -106],
          [s |-> 0, m |-> <<14101, 5219, 7160, 152>>, e |-> -52]>>,
       <<[s |-> 0, m |-> <<7443, 29014, 16897, 44>>, e |-> -105],
          [s |-> 0, m |-> <<22577, 30873, 1475, 153>>, e |-> -52]>>,
       <<[s |-> 0, m |-> <<31781, 24019, 14962, 127>>, e |-> -106],
          [s |-> 0, m |-> <<5887, 25800, 28706, 153>>, e |-> -52]>>,
       <<[s |-> 1, m |-> <<5825, 7623, 9088, 45>>, e |-> -105],
          [s |-> 0, m |-> <<8177, 16165, 23317, 154>>, e |-> -52]>>,
       <<[s |-> 1, m |-> <<27149, 29458, 9590, 18>>, e |-> -103],
          [s |-> 0, m |-> <<10699, 28277, 18076, 155>>, e |-> -52]>>,
       <<[s |-> 1, m |-> <<5831, 6993, 4080, 100>>, e |-> -105],
          [s |-> 0, m |-> <<27699, 27909, 6492, 78>>, e |-> -51]>>,
       <<[s |-> 1, m |-> <<7017, 16020, 9168, 71>>, e |-> -107],
          [s |-> 0, m |-> <<8183, 27083, 8044, 157>>, e |-> -52]>>,
       <<[s |-> 1, m |-> <<6933, 26524, 25702, 200>>, e |-> -106],
          [s |-> 0, m |-> <<10469, 1575, 3255, 158>>, e |-> -52]>>,
       <<[s |-> 0, m |-> <<19565, 20052, 32034, 172>>, e |-> -107],
          [s |-> 0, m |-> <<6673, 19474, 15692, 79>>, e |-> -51]>>,
       <<[s |-> 1, m |-> <<13509, 31272, 9408, 76>>, e |-> -105],
          [s |-> 0, m |-> <<8199, 598, 31301, 39>>, e |-> -50]>>,
       <<[s |-> 1, m |-> <<2395, 4143, 7741, 197>>, e |-> -110],
          [s |-> 0, m |-> <<5909, 8695, 11284, 80>>, e |-> -51]>>,
       <<[s |-> 1, m |-> <<6683, 20115, 12909, 225>>, e |-> -108],
          [s |-> 0, m |-> <<10391, 12961, 18391, 161>>, e |-> -52]>>,
       <<[s |-> 0, m |-> <<11281, 16773, 4021, 155>>, e |-> -111],
          [s |-> 0, m |-> <<2349, 16579, 14369, 162>>, e |-> -52]>>,
       <<[s |-> 0, m |-> <<25839, 30220, 6180, 179>>, e |-> -106],
          [s |-> 0, m |-> <<87, 23098, 10503, 163>>, e |-> -52]>>,
       <<[s |-> 0, m |-> <<889, 13634, 13191, 246>>, e |-> -109],
          [s |-> 0, m |-> <<5069, 22200, 8616, 10>>, e |-> -48]>>,
       <<[s |-> 0, m |-> <<28963, 18401, 32739, 9>>, e |-> -102],
          [s |-> 0, m |-> <<27119, 28887, 18005, 82>>, e |-> -51]>>,
       <<[s |-> 0, m |-> <<11003, 22383, 9267, 11>>, e |-> -104],
          [s |-> 0, m |-> <<10791, 10860, 32619, 165>>, e |-> -52]>>,
       <<[s |-> 0, m |-> <<24695, 22185, 30455, 152>>, e |-> -106],
          [s |-> 0, m |-> <<23821, 13307, 29386, 166>>, e |-> -52]>>,
       <<[s |-> 1, m |-> <<20935, 113, 10344, 126>>, e |-> -106],
          [s |-> 0, m |-> <<11431, 27962, 26313, 167>>, e |-> -52]>>,
       <<[s |-> 1, m |-> <<9033, 14631, 31539, 190>>, e |-> -107],
          [s |-> 0, m |-> <<13089, 8911, 11701, 84>>, e |-> -51]>>,
       <<[s |-> 1, m |-> <<14431, 31262, 31514, 198>>, e |-> -108],
          [s |-> 0, m |-> <<10177, 22173, 26710, 84>>, e |-> -51]>>,
       <<[s |-> 1, m |-> <<11899, 27771, 9357, 88>>, e |-> -106],
          [s |-> 0, m |-> <<4623, 5307, 18067, 170>>, e |-> -52]>>,
       <<[s |-> 0, m |-> <<27591, 6397, 27146, 76>>, e |-> -105],
          [s |-> 0, m |-> <<5101, 14005, 24206, 85>>, e |-> -51]>>,
       <<[s |-> 0, m |-> <<6917, 24341, 25308, 220>>, e |-> -108],
          [s |-> 0, m |-> <<18429, 10543, 13387, 172>>, e |-> -52]>>,
       <<[s |-> 0, m |-> <<21513, 17464, 3975, 131>>, e |-> -106],
          [s |-> 0, m |-> <<21545, 14992, 11295, 173>>, e |-> -52]>>,
       <<[s |-> 0, m |-> <<25461, 20505, 3850, 83>>, e |-> -111],
          [s |-> 0, m |-> <<18103, 5298, 9370, 174>>, e |-> -52]>>,
       <<[s |-> 0, m |-> <<16437, 22217, 19352, 161>>, e |-> -106],
          [s |-> 0, m |-> <<9257, 17771, 29623, 21>>, e |-> -49]>>,
       <<[s |-> 1, m |-> <<30367, 17202, 4393, 231>>, e |-> -107],
          [s |-> 0, m |-> <<23561, 29421, 6022, 176>>, e |-> -52]>>,
       <<[s |-> 1, m |-> <<27061, 20219, 6626, 28>>, e |-> -104],
          [s |-> 0, m |-> <<21893, 24692, 4602, 177>>, e |-> -52]>>,
       <<[s |-> 1, m |-> <<29911, 2347, 9969, 81>>, e |-> -106],
          [s |-> 0, m |-> <<26137, 25420, 18536, 5>>, e |-> -47]>>,
       <<[s |-> 1, m |-> <<19211, 24085, 26478, 19>>, e |-> -103],
          [s |-> 0, m |-> <<8741, 1194, 2274, 179>>, e |-> -52]>>,
       <<[s |-> 0, m |-> <<1625, 16447, 4266, 46>>, e |-> -108],
          [s |-> 0, m |-> <<10611, 10393, 1367, 180>>, e |-> -52]>>,
       <<[s |-> 1, m |-> <<17477, 28631, 23031, 19>>, e |-> -103],
          [s |-> 0, m |-> <<15309, 19710, 633, 181>>, e |-> -52]>>,
       <<[s |-> 1, m |-> <<23745, 1844, 9563, 104>>, e |-> -108],
          [s |-> 0, m |-> <<23231, 27159, 73, 182>>, e |-> -52]>>,
       <<[s |-> 1, m |-> <<21751, 14445, 20447, 77>>, e |-> -108],
          [s |-> 0, m |-> <<6703, 30922, 32456, 182>>, e |-> -52]>>,
       <<[s |-> 1, m |-> <<2129, 10689, 28917, 134>>, e |-> -107],
          [s |-> 0, m |-> <<25889, 31912, 32637, 45>>, e |-> -50]>>,
       <<[s |-> 1, m |-> <<16079, 31924, 32145, 192>>, e |-> -108],
          [s |-> 0, m |-> <<6109, 29814, 8053, 46>>, e |-> -50]>>,
       <<[s |-> 1, m |-> <<14299, 22545, 15250, 11>>, e |-> -103],
          [s |-> 0, m |-> <<24669, 9298, 16282, 46>>, e |-> -50]>>,
       <<[s |-> 1, m |-> <<29509, 7765, 12900, 88>>, e |-> -106],
          [s |-> 0, m |-> <<26569, 11396, 32685, 186>>, e |-> -52]>>,
       <<[s |-> 0, m |-> <<21715, 15379, 29485, 132>>, e |-> -106],
          [s |-> 0, m |-> <<23871, 8124, 421, 188>>, e |-> -52]>>,
       <<[s |-> 1, m |-> <<9501, 29339, 19314, 217>>, e |-> -108],
          [s |-> 0, m |-> <<391, 26582, 1105, 189>>, e |-> -52]>>,
       <<[s |-> 0, m |-> <<16491, 10447, 13301, 167>>, e |-> -106],
          [s |-> 0, m |-> <<24729, 304, 986, 95>>, e |-> -51]>>,
       <<[s |-> 0, m |-> <<27733, 22444, 12166, 175>>, e |-> -109],
          [s |-> 0, m |-> <<10033, 14031, 17894, 95>>, e |-> -51]>>,
       <<[s |-> 1, m |-> <<26529, 12211, 17290, 98>>, e |-> -106],
          [s |-> 0, m |-> <<3337, 21566, 2126, 96>>, e |-> -51]>>,
       <<[s |-> 1, m |-> <<19917, 30877, 27062, 38>>, e |-> -104],
          [s |-> 0, m |-> <<19987, 12953, 5670, 193>>, e |-> -52]>>,
       <<[s |-> 1, m |-> <<32655, 14873, 15624, 65>>, e |-> -106],
          [s |-> 0, m |-> <<18349, 3143, 7273, 194>>, e |-> -52]>>,
       <<[s |-> 1, m |-> <<11191, 22642, 10401, 83>>, e |-> -105],
          [s |-> 0, m |-> <<4845, 13961, 9062, 195>>, e |-> -52]>>,
       <<[s |-> 0, m |-> <<1861, 26459, 8538>>, e |-> -97],
          [s |-> 0, m |-> <<26265, 13076, 11039, 196>>, e |-> -52]>>,
       <<[s |-> 0, m |-> <<15021, 24824, 14127, 59>>, e |-> -105],
          [s |-> 0, m |-> <<8411, 1109, 13205, 197>>, e |-> -52]>>,
       <<[s |-> 1, m |-> <<26623, 14731, 22914, 173>>, e |-> -109],
          [s |-> 0, m |-> <<20771, 2906, 20274, 49>>, e |-> -50]>>,
       <<[s |-> 0, m |-> <<22481, 11513, 30339, 55>>, e |-> -106],
          [s |-> 0, m |-> <<15259, 6421, 25437, 99>>, e |-> -51]>>,
       <<[s |-> 1, m |-> <<15747, 20028, 9342, 152>>, e |-> -106],
          [s |-> 0, m |-> <<32739, 2961, 10422, 100>>, e |-> -51]>>,
       <<[s |-> 1, m |-> <<7721, 5848, 9954, 237>>, e |-> -110],
          [s |-> 0, m |-> <<17893, 24987, 23774, 201>>, e |-> -52]>>,
       <<[s |-> 1, m |-> <<14681, 31009, 4069, 225>>, e |-> -109],
          [s |-> 0, m |-> <<21007, 6032, 26899, 202>>, e |-> -52]>>,
       <<[s |-> 1, m |-> <<31957, 8948, 1670, 73>>, e |-> -105],
          [s |-> 0, m |-> <<25829, 21499, 24416, 12>>, e |-> -48]>>,
       <<[s |-> 1, m |-> <<3659, 11981, 10675, 174>>, e |-> -107],
          [s |-> 0, m |-> <<989, 28874, 16866, 102>>, e |-> -51]>>,
       <<[s |-> 0, m |-> <<20007, 22307, 16368, 141>>, e |-> -108],
          [s |-> 0, m |-> <<16137, 12372, 28964, 12>>, e |-> -48]>>,
       <<[s |-> 0, m |-> <<29627, 16916, 18647, 238>>, e |-> -109],
          [s |-> 0, m |-> <<8995, 13254, 8588, 207>>, e |-> -52]>>,
       <<[s |-> 1, m |-> <<8803, 17604, 5136, 190>>, e |-> -107],
          [s |-> 0, m |-> <<25957, 30395, 12697, 208>>, e |-> -52]>>,
       <<[s |-> 0, m |-> <<12757, 18372, 29211, 216>>, e |-> -107],
          [s |-> 0, m |-> <<11571, 22676, 17007, 209>>, e |-> -52]>>,
       <<[s |-> 1, m |-> <<15125, 10105, 28487, 141>>, e |-> -106],
          [s |-> 0, m |-> <<9565, 25724, 21518, 210>>, e |-> -52]>>,
       <<[s |-> 0, m |-> <<6377, 7406, 6243, 67>>, e |-> -105],
          [s |-> 0, m |-> <<5739, 1228, 15567, 26>>, e |-> -49]>>,
       <<[s |-> 0, m |-> <<23219, 23782, 9745, 163>>, e |-> -107],
          [s |-> 0, m |-> <<32191, 10995, 31149, 212>>, e |-> -52]>>,
       <<[s |-> 1, m |-> <<10093, 19399, 24525, 37>>, e |-> -105],
          [s |-> 0, m |-> <<31165, 16339, 1751, 107>>, e |-> -51]>>,
       <<[s |-> 0, m |-> <<13191, 9622, 27102, 224>>, e |-> -107],
          [s |-> 0, m |-> <<21421, 12981, 8830, 215>>, e |-> -52]>>,
       <<[s |-> 1, m |-> <<27901, 19153, 30494, 65>>, e |-> -105],
          [s |-> 0, m |-> <<23347, 10637, 7182, 108>>, e |-> -51]>>,
       <<[s |-> 1, m |-> <<22365, 22236, 1970, 87>>, e |-> -109],
          [s |-> 0, m |-> <<5627, 28830, 20106, 217>>, e |-> -52]>>,
       <<[s |-> 1, m |-> <<7129, 29165, 2624, 2>>, e |-> -100],
          [s |-> 0, m |-> <<11421, 3557, 13029, 109>>, e |-> -51]>>,
       <<[s |-> 1, m |-> <<25805, 7254, 22260, 49>>, e |-> -107],
          [s |-> 0, m |-> <<24135, 26102, 32219, 219>>, e |-> -52]>>,
       <<[s |-> 1, m |-> <<2613, 22193, 15241, 143>>, e |-> -106],
          [s |-> 0, m |-> <<805, 12449, 19296, 110>>, e |-> -51]>>,
       <<[s |-> 0, m |-> <<24013, 5311, 32604, 167>>, e |-> -108],
          [s |-> 0, m |-> <<24809, 4171, 6205, 111>>, e |-> -51]>>,
       <<[s |-> 1, m |-> <<9771, 32073, 15867, 35>>, e |-> -104],
          [s |-> 0, m |-> <<7689, 14254, 19209, 223>>, e |-> -52]>>,
       <<[s |-> 0, m |-> <<3251, 24926, 15032, 155>>, e |-> -108],
          [s |-> 0, m |-> <<21671, 28354, 6555, 56>>, e |-> -50]>>,
       <<[s |-> 0, m |-> <<32613, 11855, 25394, 61>>, e |-> -105],
          [s |-> 0, m |-> <<26685, 24575, 342, 113>>, e |-> -51]>>,
       <<[s |-> 0, m |-> <<22123, 26756, 24719, 41>>, e |-> -105],
          [s |-> 0, m |-> <<20811, 23727, 8132, 227>>, e |-> -52]>>,
       <<[s |-> 0, m |-> <<6759, 28828, 14012, 158>>, e |-> -109],
          [s |-> 0, m |-> <<26549, 10253, 15798, 228>>, e |-> -52]>>,
       <<[s |-> 0, m |-> <<17197, 6948, 13718, 23>>, e |-> -106],
          [s |-> 0, m |-> <<4201, 14815, 23683, 229>>, e |-> -52]>>,
       <<[s |-> 1, m |-> <<23273, 972, 5169, 66>>, e |-> -106],
          [s |-> 0, m |-> <<25085, 21853, 15894, 115>>, e |-> -51]>>,
       <<[s |-> 1, m |-> <<31343, 32767, 13684, 253>>, e |-> -107],
          [s |-> 0, m |-> <<25183, 9475, 1837, 58>>, e |-> -50]>>,
       <<[s |-> 1, m |-> <<10569, 28907, 14008, 128>>, e |-> -106],
          [s |-> 0, m |-> <<17657, 2061, 24334, 116>>, e |-> -51]>>,
       <<[s |-> 0, m |-> <<1959, 19578, 3606, 165>>, e |-> -108],
          [s |-> 0, m |-> <<9351, 14839, 24675, 234>>, e |-> -52]>>,
       <<[s |-> 1, m |-> <<8719, 16512, 18040, 148>>, e |-> -107],
          [s |-> 0, m |-> <<12403, 17842, 16497, 29>>, e |-> -49]>>,
       <<[s |-> 0, m |-> <<25771, 27360, 23120, 60>>, e |-> -105],
          [s |-> 0, m |-> <<12933, 1974, 10136, 237>>, e |-> -52]>>,
       <<[s |-> 0, m |-> <<27467, 22530, 26982, 161>>, e |-> -107],
          [s |-> 0, m |-> <<3491, 7984, 14948, 7>>, e |-> -47]>>,
       <<[s |-> 1, m |-> <<15903, 3944, 21636, 150>>, e |-> -107],
          [s |-> 0, m |-> <<7007, 26359, 29276, 239>>, e |-> -52]>>,
       <<[s |-> 1, m |-> <<3529, 30350, 10980, 201>>, e |-> -107],
          [s |-> 0, m |-> <<8489, 10731, 6424, 241>>, e |-> -52]>>,
       <<[s |-> 0, m |-> <<2259, 16501, 22545, 165>>, e |-> -108],
          [s |-> 0, m |-> <<8187, 26507, 8285, 121>>, e |-> -51]>>,
       <<[s |-> 0, m |-> <<29297, 9018, 6065, 158>>, e |-> -107],
          [s |-> 0, m |-> <<19587, 30606, 26951, 243>>, e |-> -52]>>,
       <<[s |-> 1, m |-> <<14623, 20986, 32196, 15>>, e |-> -103],
          [s |-> 0, m |-> <<18541, 8868, 18783, 122>>, e |-> -51]>>,
       <<[s |-> 1, m |-> <<29821, 17478, 14947, 237>>, e |-> -107],
          [s |-> 0, m |-> <<26609, 23324, 15648, 246>>, e |-> -52]>>,
       <<[s |-> 0, m |-> <<17409, 4202, 25054, 30>>, e |-> -104],
          [s |-> 0, m |-> <<23079, 23746, 26735, 247>>, e |-> -52]>>,
       <<[s |-> 0, m |-> <<30105, 17321, 22313, 80>>, e |-> -106],
          [s |-> 0, m |-> <<14999, 28375, 5292, 249>>, e |-> -52]>>,
       <<[s |-> 0, m |-> <<17143, 12753, 18770, 105>>, e |-> -106],
          [s |-> 0, m |-> <<14613, 13019, 29959, 3>>, e |-> -46]>>,
       <<[s |-> 1, m |-> <<25581, 18551, 24299, 241>>, e |-> -107],
          [s |-> 0, m |-> <<12165, 22222, 31741, 62>>, e |-> -50]>>,
       <<[s |-> 0, m |-> <<19869, 6947, 9453, 188>>, e |-> -108],
          [s |-> 0, m |-> <<21019, 24679, 21472, 31>>, e |-> -49]>>,
       <<[s |-> 0, m |-> <<19593, 705, 5893, 152>>, e |-> -110],
          [s |-> 0, m |-> <<29169, 22302, 20232, 254>>, e |-> -52]>> >>

\* e_pow.c, log_inline: <<hi, lo>> with hi + lo close to log(x), for
\* x = 2^k * z and z in the subinterval i
LogInlineOut(hi, lo, y) == <<y, FAdd(FSub(hi, y), lo)>>

LogInlineSum(hi, lo) == LogInlineOut(hi, lo, FAdd(hi, lo))

LogPoly(r, ar2) ==
    FMA(ar2,
        FMA(FMA(r, LogPolyA[7], LogPolyA[6]), ar2, FMA(r, LogPolyA[5], LogPolyA[4])),
        FMA(r, LogPolyA[3], LogPolyA[2]))

LogInlineLo(hi, t2, lo12, r, ar, ar2) ==
    LogInlineSum(hi, FMA(FMul(r, ar2), LogPoly(r, ar2),
                         FAdd(FAdd(lo12, FMA(ar, r, FNeg(ar2))),
                              FAdd(FSub(t2, hi), ar2))))

LogInlineHi(t1, t2, lo1, r, ar, ar2) ==
    LogInlineLo(FAdd(t2, ar2), t2, FAdd(lo1, FAdd(FSub(t1, t2), r)), r, ar, ar2)

LogInlineT2(t1, lo1, r, ar) == LogInlineHi(t1, FAdd(t1, r), lo1, r, ar, FMul(r, ar))

LogInlineR(kd, row, r) ==
    LogInlineT2(FMA(kd, Ln2hi, row[2]), FMA(kd, Ln2lo, row[3]), r, FMul(LogPolyA[1], r))

LogInlineZ(z, k, row) == LogInlineR(FInt(k), row, FMA(z, row[1], FInt(-1)))

LogInlineAt(x, top, off) ==
    LogInlineZ([x EXCEPT !.e = x.e - (IF off >= 0 THEN top ELSE top - 1)],
               IF off >= 0 THEN top ELSE top - 1,
               LogTab[((off + 1048576) % 1048576) \div 8192 + 1])

log_inline(x) == LogInlineAt(x, BitLen(x.m) + x.e, TopBits(x) - 1048576 - 431445)

\* e_pow.c, exp_inline: exp(x + xtail) = 2^(k/128) * exp(r), k the integer
\* nearest to x * 128 / ln 2
ExpInlineTmp(r, tail, r2) ==
    FMA(FMA(r, ExpPolyC[4], ExpPolyC[3]), FMul(r2, r2),
        FMA(FMA(r, ExpPolyC[2], ExpPolyC[1]), r2, FAdd(tail, r)))

\* specialcase computes scale + scale * tmp in two steps for k < 0
ExpInlineScale(x, scale, tmp) ==
    IF FLe(x, FInt(-512)) THEN FAdd(scale, FMul(scale, tmp))
    ELSE FMA(tmp, scale, scale)

ExpInlineR(x, ki, r) ==
    ExpInlineScale(x,
                   [ExpTab[(ki % 128) + 1][2] EXCEPT !.e = @ + (ki - (ki % 128)) \div 128],
                   ExpInlineTmp(r, ExpTab[(ki % 128) + 1][1], FMul(r, r)))

ExpInlineK(x, xtail, kd) ==
    ExpInlineR(x, FToInt(kd), FAdd(xtail, FMA(kd, NegLn2loN, FMA(kd, NegLn2hiN, x))))

exp_inline(x, xtail) ==
    IF FCmpMag(x, XPow2(-54)) < 0 THEN FAdd(FInt(1), x)
    ELSE ExpInlineK(x, xtail, FSub(FMA(x, InvLn2N, Shift), Shift))

\* e_pow.c, pow, for a normal x > 0 and a result in the normal range
PowExp(y, hi, lo, ehi) == exp_inline(ehi, FMA(y, lo, FMA(hi, y, FNeg(ehi))))

PowLog(y, hilo) == PowExp(y, hilo[1], hilo[2], FMul(y, hilo[1]))

pow(x, y) == PowLog(y, log_inline(x))

\* a ** n for a Python int n >= 0: float_pow returns 1.0 for n = 0, the zero
\* for a = 0, 1.0 or -1.0 for |a| = 1, and otherwise pow(|a|, n), negated
\* for a < 0 and an odd n
FPowSigned(a, n, power) == IF a.s = 1 /\ n % 2 = 1 THEN FNeg(power) ELSE power

FPow(a, n) ==
    IF n = 0 THEN FInt(1)
    ELSE IF FIsZero(a) THEN FZero
    ELSE IF FAbs(a) = FInt(1) THEN FPowSigned(a, n, FInt(1))
    ELSE FPowSigned(a, n, pow(FAbs(a), FInt(n)))

-----------------------------------------------------------------------------
(* Python strings as sequences of code points: str.lower and the substring *)
(* test "in".  The tables are those of the Unicode 14.0 database of         *)
(* CPython 3.11; a code point that is unassigned there is neither cased nor *)
(* case-ignorable and lowers to itself.                                     *)

\* the printable ASCII characters U+0020 to U+005F and U+0061 to U+007E
Ascii ==
    << " ", "!", "\"", "#", "$", "%", "&", "'", "(", ")", "*", "+", ",", "-",
       ".", "/", "0", "1", "2", "3", "4", "5", "6", "7", "8", "9", ":", ";",
       "<", "=", ">", "?", "@", "A", "B", "C", "D", "E", "F", "G", "H", "I",
       "J", "K", "L", "M", "N", "O", "P", "Q", "R", "S", "T", "U", "V", "W",
       "X", "Y", "Z", "[", "\\", "]", "^", "_", "a", "b", "c", "d", "e", "f",
       "g", "h", "i", "j", "k", "l", "m", "n", "o", "p", "q", "r", "s", "t",
       "u", "v", "w", "x", "y", "z", "{", "|", "}", "~" >>

AsciiIndex(c) == CHOOSE i \in DOMAIN Ascii : Ascii[i] = c

\* ord(c) for a character of Ascii
ord(c) == IF AsciiIndex(c) <= 64 THEN 31 + AsciiIndex(c) ELSE 32 + AsciiIndex(c)

\* a string literal of characters of Ascii
Str(chars) == [i \in 1..Len(chars) |-> ord(chars[i])]

\* the code points that lower to another code point, in runs
\* <<first, last, step, lowered - code point>>
LowerRuns ==
    << <<65, 90, 1, 32>>, <<192, 214, 1, 32>>, <<216, 222, 1, 32>>,
       <<256, 302, 2, 1>>, <<306, 310, 2, 1>>, <<313, 327, 2, 1>>,
       <<330, 374, 2, 1>>, <<376, 376, 1, -121>>, <<377, 381, 2, 1>>,
       <<385, 385, 1, 210>>, <<386, 388, 2, 1>>, <<390, 390, 1, 206>>,
       <<391, 391, 1, 1>>, <<393, 394, 1, 205>>, <<395, 395, 1, 1>>,
       <<398, 398, 1, 79>>, <<399, 399, 1, 202>>, <<400, 400, 1, 203>>,
       <<401, 401, 1, 1>>, <<403, 403, 1, 205>>, <<404, 404, 1, 207>>,
       <<406, 406, 1, 211>>, <<407, 407, 1, 209>>, <<408, 408, 1, 1>>,
       <<412, 412, 1, 211>>, <<413, 413, 1, 213>>, <<415, 415, 1, 214>>,
       <<416, 420, 2, 1>>, <<422, 422, 1, 218>>, <<423, 423, 1, 1>>,
       <<425, 425, 1, 218>>, <<428, 428, 1, 1>>, <<430, 430, 1, 218>>,
       <<431, 431, 1, 1>>, <<433, 434, 1, 217>>, <<435, 437, 2, 1>>,
       <<439, 439, 1, 219>>, <<440, 440, 1, 1>>, <<444, 444, 1, 1>>,
       <<452, 452, 1, 2>>, <<453, 453, 1, 1>>, <<455, 455, 1, 2>>,
       <<456, 456, 1, 1>>, <<458, 458, 1, 2>>, <<459, 475, 2, 1>>,
       <<478, 494, 2, 1>>, <<497, 497, 1, 2>>, <<498, 500, 2, 1>>,
       <<502, 502, 1, -97>>, <<503, 503, 1, -56>>, <<504, 542, 2, 1>>,
       <<544, 544, 1, -130>>, <<546, 562, 2, 1>>, <<570, 570, 1, 10795>>,
       <<571, 571, 1, 1>>, <<573, 573, 1, -163>>, <<574, 574, 1, 10792>>,
       <<577, 577, 1, 1>>, <<579, 579, 1, -195>>, <<580, 580, 1, 69>>,
       <<581, 581, 1, 71>>, <<582, 590, 2, 1>>, <<880, 882, 2, 1>>,
       <<886, 886, 1, 1>>, <<895, 895, 1, 116>>, <<902, 902, 1, 38>>,
       <<904, 906, 1, 37>>, <<908, 908, 1, 64>>, <<910, 911, 1, 63>>,
       <<913, 929, 1, 32>>, <<931, 939, 1, 32>>, <<975, 975, 1, 8>>,
       <<984, 1006, 2, 1>>, <<1012, 1012, 1, -60>>, <<1015, 1015, 1, 1>>,
       <<1017, 1017, 1, -7>>, <<1018, 1018, 1, 1>>, <<1021, 1023, 1, -130>>,
       <<1024, 1039, 1, 80>>, <<1040, 1071, 1, 32>>, <<1120, 1152, 2, 1>>,
       <<1162, 1214, 2, 1>>, <<1216, 1216, 1, 15>>, <<1217, 1229, 2, 1>>,
       <<1232, 1326, 2, 1>>, <<1329, 1366, 1, 48>>, <<4256, 4293, 1, 7264>>,
       <<4295, 4295, 1, 7264>>, <<4301, 4301, 1, 7264>>,
       <<5024, 5103, 1, 38864>>, <<5104, 5109, 1, 8>>,
       <<7312, 7354, 1, -3008>>, <<7357, 7359, 1, -3008>>,
       <<7680, 7828, 2, 1>>, <<7838, 7838, 1, -7615>>, <<7840, 7934, 2, 1>>,
       <<7944, 7951, 1, -8>>, <<7960, 7965, 1, -8>>, <<7976, 7983, 1, -8>>,
       <<7992, 7999, 1, -8>>, <<8008, 8013, 1, -8>>, <<8025, 8031, 2, -8>>,
       <<8040, 8047, 1, -8>>, <<8072, 8079, 1, -8>>, <<8088, 8095, 1, -8>>,
       <<8104, 8111, 1, -8>>, <<8120, 8121, 1, -8>>, <<8122, 8123, 1, -74>>,
       <<8124, 8124, 1, -9>>, <<8136, 8139, 1, -86>>, <<8140, 8140, 1, -9>>,
       <<8152, 8153, 1, -8>>, <<8154, 8155, 1, -100>>, <<8168, 8169, 1, -8>>,
       <<8170, 8171, 1, -112>>, <<8172, 8172, 1, -7>>,
       <<8184, 8185, 1, -128>>, <<8186, 8187, 1, -126>>,
       <<8188, 8188, 1, -9>>, <<8486, 8486, 1, -7517>>,
       <<8490, 8490, 1, -8383>>, <<8491, 8491, 1, -8262>>,
       <<8498, 8498, 1, 28>>, <<8544, 8559, 1, 16>>, <<8579, 8579, 1, 1>>,
       <<9398, 9423, 1, 26>>, <<11264, 11311, 1, 48>>, <<11360, 11360, 1, 1>>,
       <<11362, 11362, 1, -10743>>, <<11363, 11363, 1, -3814>>,
       <<11364, 11364, 1, -10727>>, <<11367, 11371, 2, 1>>,
       <<11373, 11373, 1, -10780>>, <<11374, 11374, 1, -10749>>,
       <<11375, 11375, 1, -10783>>, <<11376, 11376, 1, -10782>>,
       <<11378, 11378, 1, 1>>, <<11381, 11381, 1, 1>>,
       <<11390, 11391, 1, -10815>>, <<11392, 11490, 2, 1>>,
       <<11499, 11501, 2, 1>>, <<11506, 11506, 1, 1>>, <<42560, 42604, 2, 1>>,
       <<42624, 42650, 2, 1>>, <<42786, 42798, 2, 1>>, <<42802, 42862, 2, 1>>,
       <<42873, 42875, 2, 1>>, <<42877, 42877, 1, -35332>>,
       <<42878, 42886, 2, 1>>, <<42891, 42891, 1, 1>>,
       <<42893, 42893, 1, -42280>>, <<42896, 42898, 2, 1>>,
       <<42902, 42920, 2, 1>>, <<42922, 42922, 1, -42308>>,
       <<42923, 42923, 1, -42319>>, <<42924, 42924, 1, -42315>>,
       <<42925, 42925, 1, -42305>>, <<42926, 42926, 1, -42308>>,
       <<42928, 42928, 1, -42258>>, <<42929, 42929, 1, -42282>>,
       <<42930, 42930, 1, -42261>>, <<42931, 42931, 1, 928>>,
       <<42932, 42946, 2, 1>>, <<42948, 42948, 1, -48>>,
       <<42949, 42949, 1, -42307>>, <<42950, 42950, 1, -35384>>,
       <<42951, 42953, 2, 1>>, <<42960, 42960, 1, 1>>, <<42966, 42968, 2, 1>>,
       <<42997, 42997, 1, 1>>, <<65313, 65338, 1, 32>>,
       <<66560, 66599, 1, 40>>, <<66736, 66771, 1, 40>>,
       <<66928, 66938, 1, 39>>, <<66940, 66954, 1, 39>>,
       <<66956, 66962, 1, 39>>, <<66964, 66965, 1, 39>>,
       <<68736, 68786, 1, 64>>, <<71840, 71871, 1, 32>>,
       <<93760, 93791, 1, 32>>, <<125184, 125217, 1, 34>> >>

InRun(c, run) == run[1] <= c /\ c <= run[2] /\ (c - run[1]) % run[3] = 0

\* the lowering of one character: U+0130 lowers to "i" and U+0307, every
\* other character to one character
LowerChar(c) ==
    IF c = 304 THEN <<105, 775>>
    ELSE IF \E k \in DOMAIN LowerRuns : InRun(c, LowerRuns[k])
    THEN <<c + LowerRuns[CHOOSE k \in DOMAIN LowerRuns : InRun(c, LowerRuns[k])][4]>>
    ELSE <<c>>

\* the cased code points (lowercase, uppercase or titlecase), in ranges
\* <<first, last>>
CasedRanges ==
    << <<65, 90>>, <<97, 122>>, <<170, 170>>, <<181, 181>>, <<186, 186>>,
       <<192, 214>>, <<216, 246>>, <<248, 442>>, <<444, 447>>, <<452, 659>>,
       <<661, 696>>, <<704, 705>>, <<736, 740>>, <<837, 837>>, <<880, 883>>,
       <<886, 887>>, <<890, 893>>, <<895, 895>>, <<902, 902>>, <<904, 906>>,
       <<908, 908>>, <<910, 929>>, <<931, 1013>>, <<1015, 1153>>,
       <<1162, 1327>>, <<1329, 1366>>, <<1376, 1416>>, <<4256, 4293>>,
       <<4295, 4295>>, <<4301, 4301>>, <<4304, 4346>>, <<4349, 4351>>,
       <<5024, 5109>>, <<5112, 5117>>, <<7296, 7304>>, <<7312, 7354>>,
       <<7357, 7359>>, <<7424, 7615>>, <<7680, 7957>>, <<7960, 7965>>,
       <<7968, 8005>>, <<8008, 8013>>, <<8016, 8023>>, <<8025, 8025>>,
       <<8027, 8027>>, <<8029, 8029>>, <<8031, 8061>>, <<8064, 8116>>,
       <<8118, 8124>>, <<8126, 8126>>, <<8130, 8132>>, <<8134, 8140>>,
       <<8144, 8147>>, <<8150, 8155>>, <<8160, 8172>>, <<8178, 8180>>,
       <<8182, 8188>>, <<8305, 8305>>, <<8319, 8319>>, <<8336, 8348>>,
       <<8450, 8450>>, <<8455, 8455>>, <<8458, 8467>>, <<8469, 8469>>,
       <<8473, 8477>>, <<8484, 8484>>, <<8486, 8486>>, <<8488, 8488>>,
       <<8490, 8493>>, <<8495, 8500>>, <<8505, 8505>>, <<8508, 8511>>,
       <<8517, 8521>>, <<8526, 8526>>, <<8544, 8575>>, <<8579, 8580>>,
       <<9398, 9449>>, <<11264, 11492>>, <<11499, 11502>>, <<11506, 11507>>,
       <<11520, 11557>>, <<11559, 11559>>, <<11565, 11565>>, <<42560, 42605>>,
       <<42624, 42653>>, <<42786, 42887>>, <<42891, 42894>>, <<42896, 42954>>,
       <<42960, 42961>>, <<42963, 42963>>, <<42965, 42969>>, <<42997, 42998>>,
       <<43000, 43002>>, <<43824, 43866>>, <<43868, 43880>>, <<43888, 43967>>,
       <<64256, 64262>>, <<64275, 64279>>, <<65313, 65338>>, <<65345, 65370>>,
       <<66560, 66639>>, <<66736, 66771>>, <<66776, 66811>>, <<66928, 66938>>,
       <<66940, 66954>>, <<66956, 66962>>, <<66964, 66965>>, <<66967, 66977>>,
       <<66979, 66993>>, <<66995, 67001>>, <<67003, 67004>>, <<67456, 67456>>,
       <<67459, 67461>>, <<67463, 67504>>, <<67506, 67514>>, <<68736, 68786>>,
       <<68800, 68850>>, <<71840, 71903>>, <<93760, 93823>>,
       <<119808, 119892>>, <<119894, 119964>>, <<119966, 119967>>,
       <<119970, 119970>>, <<119973, 119974>>, <<119977, 119980>>,
       <<119982, 119993>>, <<119995, 119995>>, <<119997, 120003>>,
       <<120005, 120069>>, <<120071, 120074>>, <<120077, 120084>>,
       <<120086, 120092>>, <<120094, 120121>>, <<120123, 120126>>,
       <<120128, 120132>>, <<120134, 120134>>, <<120138, 120144>>,
       <<120146, 120485>>, <<120488, 120512>>, <<120514, 120538>>,
       <<120540, 120570>>, <<120572, 120596>>, <<120598, 120628>>,
       <<120630, 120654>>, <<120656, 120686>>, <<120688, 120712>>,
       <<120714, 120744>>, <<120746, 120770>>, <<120772, 120779>>,
       <<122624, 122633>>, <<122635, 122654>>, <<125184, 125251>>,
       <<127280, 127305>>, <<127312, 127337>>, <<127344, 127369>> >>

\* the case-ignorable code points, in ranges <<first, last>>
CaseIgnorableRanges ==
    << <<39, 39>>, <<46, 46>>, <<58, 58>>, <<94, 94>>, <<96, 96>>,
       <<168, 168>>, <<173, 173>>, <<175, 175>>, <<180, 180>>, <<183, 184>>,
       <<688, 879>>, <<884, 885>>, <<890, 890>>, <<900, 901>>, <<903, 903>>,
       <<1155, 1161>>, <<1369, 1369>>, <<1375, 1375>>, <<1425, 1469>>,
       <<1471, 1471>>, <<1473, 1474>>, <<1476, 1477>>, <<1479, 1479>>,
       <<1524, 1524>>, <<1536, 1541>>, <<1552, 1562>>, <<1564, 1564>>,
       <<1600, 1600>>, <<1611, 1631>>, <<1648, 1648>>, <<1750, 1757>>,
       <<1759, 1768>>, <<1770, 1773>>, <<1807, 1807>>, <<1809, 1809>>,
       <<1840, 1866>>, <<1958, 1968>>, <<2027, 2037>>, <<2042, 2042>>,
       <<2045, 2045>>, <<2070, 2093>>, <<2137, 2139>>, <<2184, 2184>>,
       <<2192, 2193>>, <<2200, 2207>>, <<2249, 2306>>, <<2362, 2362>>,
       <<2364, 2364>>, <<2369, 2376>>, <<2381, 2381>>, <<2385, 2391>>,
       <<2402, 2403>>, <<2417, 2417>>, <<2433, 2433>>, <<2492, 2492>>,
       <<2497, 2500>>, <<2509, 2509>>, <<2530, 2531>>, <<2558, 2558>>,
       <<2561, 2562>>, <<2620, 2620>>, <<2625, 2626>>, <<2631, 2632>>,
       <<2635, 2637>>, <<2641, 2641>>, <<2672, 2673>>, <<2677, 2677>>,
       <<2689, 2690>>, <<2748, 2748>>, <<2753, 2757>>, <<2759, 2760>>,
       <<2765, 2765>>, <<2786, 2787>>, <<2810, 2815>>, <<2817, 2817>>,
       <<2876, 2876>>, <<2879, 2879>>, <<2881, 2884>>, <<2893, 2893>>,
       <<2901, 2902>>, <<2914, 2915>>, <<2946, 2946>>, <<3008, 3008>>,
       <<3021, 3021>>, <<3072, 3072>>, <<3076, 3076>>, <<3132, 3132>>,
       <<3134, 3136>>, <<3142, 3144>>, <<3146, 3149>>, <<3157, 3158>>,
       <<3170, 3171>>, <<3201, 3201>>, <<3260, 3260>>, <<3263, 3263>>,
       <<3270, 3270>>, <<3276, 3277>>, <<3298, 3299>>, <<3328, 3329>>,
       <<3387, 3388>>, <<3393, 3396>>, <<3405, 3405>>, <<3426, 3427>>,
       <<3457, 3457>>, <<3530, 3530>>, <<3538, 3540>>, <<3542, 3542>>,
       <<3633, 3633>>, <<3636, 3642>>, <<3654, 3662>>, <<3761, 3761>>,
       <<3764, 3772>>, <<3782, 3782>>, <<3784, 3789>>, <<3864, 3865>>,
       <<3893, 3893>>, <<3895, 3895>>, <<3897, 3897>>, <<3953, 3966>>,
       <<3968, 3972>>, <<3974, 3975>>, <<3981, 3991>>, <<3993, 4028>>,
       <<4038, 4038>>, <<4141, 4144>>, <<4146, 4151>>, <<4153, 4154>>,
       <<4157, 4158>>, <<4184, 4185>>, <<4190, 4192>>, <<4209, 4212>>,
       <<4226, 4226>>, <<4229, 4230>>, <<4237, 4237>>, <<4253, 4253>>,
       <<4348, 4348>>, <<4957, 4959>>, <<5906, 5908>>, <<5938, 5939>>,
       <<5970, 5971>>, <<6002, 6003>>, <<6068, 6069>>, <<6071, 6077>>,
       <<6086, 6086>>, <<6089, 6099>>, <<6103, 6103>>, <<6109, 6109>>,
       <<6155, 6159>>, <<6211, 6211>>, <<6277, 6278>>, <<6313, 6313>>,
       <<6432, 6434>>, <<6439, 6440>>, <<6450, 6450>>, <<6457, 6459>>,
       <<6679, 6680>>, <<6683, 6683>>, <<6742, 6742>>, <<6744, 6750>>,
       <<6752, 6752>>, <<6754, 6754>>, <<6757, 6764>>, <<6771, 6780>>,
       <<6783, 6783>>, <<6823, 6823>>, <<6832, 6862>>, <<6912, 6915>>,
       <<6964, 6964>>, <<6966, 6970>>, <<6972, 6972>>, <<6978, 6978>>,
       <<7019, 7027>>, <<7040, 7041>>, <<7074, 7077>>, <<7080, 7081>>,
       <<7083, 7085>>, <<7142, 7142>>, <<7144, 7145>>, <<7149, 7149>>,
       <<7151, 7153>>, <<7212, 7219>>, <<7222, 7223>>, <<7288, 7293>>,
       <<7376, 7378>>, <<7380, 7392>>, <<7394, 7400>>, <<7405, 7405>>,
       <<7412, 7412>>, <<7416, 7417>>, <<7468, 7530>>, <<7544, 7544>>,
       <<7579, 7679>>, <<8125, 8125>>, <<8127, 8129>>, <<8141, 8143>>,
       <<8157, 8159>>, <<8173, 8175>>, <<8189, 8190>>, <<8203, 8207>>,
       <<8216, 8217>>, <<8228, 8228>>, <<8231, 8231>>, <<8234, 8238>>,
       <<8288, 8292>>, <<8294, 8303>>, <<8305, 8305>>, <<8319, 8319>>,
       <<8336, 8348>>, <<8400, 8432>>, <<11388, 11389>>, <<11503, 11505>>,
       <<11631, 11631>>, <<11647, 11647>>, <<11744, 11775>>, <<11823, 11823>>,
       <<12293, 12293>>, <<12330, 12333>>, <<12337, 12341>>, <<12347, 12347>>,
       <<12441, 12446>>, <<12540, 12542>>, <<40981, 40981>>, <<42232, 42237>>,
       <<42508, 42508>>, <<42607, 42610>>, <<42612, 42621>>, <<42623, 42623>>,
       <<42652, 42655>>, <<42736, 42737>>, <<42752, 42785>>, <<42864, 42864>>,
       <<42888, 42890>>, <<42994, 42996>>, <<43000, 43001>>, <<43010, 43010>>,
       <<43014, 43014>>, <<43019, 43019>>, <<43045, 43046>>, <<43052, 43052>>,
       <<43204, 43205>>, <<43232, 43249>>, <<43263, 43263>>, <<43302, 43309>>,
       <<43335, 43345>>, <<43392, 43394>>, <<43443, 43443>>, <<43446, 43449>>,
       <<43452, 43453>>, <<43471, 43471>>, <<43493, 43494>>, <<43561, 43566>>,
       <<43569, 43570>>, <<43573, 43574>>, <<43587, 43587>>, <<43596, 43596>>,
       <<43632, 43632>>, <<43644, 43644>>, <<43696, 43696>>, <<43698, 43700>>,
       <<43703, 43704>>, <<43710, 43711>>, <<43713, 43713>>, <<43741, 43741>>,
       <<43756, 43757>>, <<43763, 43764>>, <<43766, 43766>>, <<43867, 43871>>,
       <<43881, 43883>>, <<44005, 44005>>, <<44008, 44008>>, <<44013, 44013>>,
       <<64286, 64286>>, <<64434, 64450>>, <<65024, 65039>>, <<65043, 65043>>,
       <<65056, 65071>>, <<65106, 65106>>, <<65109, 65109>>, <<65279, 65279>>,
       <<65287, 65287>>, <<65294, 65294>>, <<65306, 65306>>, <<65342, 65342>>,
       <<65344, 65344>>, <<65392, 65392>>, <<65438, 65439>>, <<65507, 65507>>,
       <<65529, 65531>>, <<66045, 66045>>, <<66272, 66272>>, <<66422, 66426>>,
       <<67456, 67461>>, <<67463, 67504>>, <<67506, 67514>>, <<68097, 68099>>,
       <<68101, 68102>>, <<68108, 68111>>, <<68152, 68154>>, <<68159, 68159>>,
       <<68325, 68326>>, <<68900, 68903>>, <<69291, 69292>>, <<69446, 69456>>,
       <<69506, 69509>>, <<69633, 69633>>, <<69688, 69702>>, <<69744, 69744>>,
       <<69747, 69748>>, <<69759, 69761>>, <<69811, 69814>>, <<69817, 69818>>,
       <<69821, 69821>>, <<69826, 69826>>, <<69837, 69837>>, <<69888, 69890>>,
       <<69927, 69931>>, <<69933, 69940>>, <<70003, 70003>>, <<70016, 70017>>,
       <<70070, 70078>>, <<70089, 70092>>, <<70095, 70095>>, <<70191, 70193>>,
       <<70196, 70196>>, <<70198, 70199>>, <<70206, 70206>>, <<70367, 70367>>,
       <<70371, 70378>>, <<70400, 70401>>, <<70459, 70460>>, <<70464, 70464>>,
       <<70502, 70508>>, <<70512, 70516>>, <<70712, 70719>>, <<70722, 70724>>,
       <<70726, 70726>>, <<70750, 70750>>, <<70835, 70840>>, <<70842, 70842>>,
       <<70847, 70848>>, <<70850, 70851>>, <<71090, 71093>>, <<71100, 71101>>,
       <<71103, 71104>>, <<71132, 71133>>, <<71219, 71226>>, <<71229, 71229>>,
       <<71231, 71232>>, <<71339, 71339>>, <<71341, 71341>>, <<71344, 71349>>,
       <<71351, 71351>>, <<71453, 71455>>, <<71458, 71461>>, <<71463, 71467>>,
       <<71727, 71735>>, <<71737, 71738>>, <<71995, 71996>>, <<71998, 71998>>,
       <<72003, 72003>>, <<72148, 72151>>, <<72154, 72155>>, <<72160, 72160>>,
       <<72193, 72202>>, <<72243, 72248>>, <<72251, 72254>>, <<72263, 72263>>,
       <<72273, 72278>>, <<72281, 72283>>, <<72330, 72342>>, <<72344, 72345>>,
       <<72752, 72758>>, <<72760, 72765>>, <<72767, 72767>>, <<72850, 72871>>,
       <<72874, 72880>>, <<72882, 72883>>, <<72885, 72886>>, <<73009, 73014>>,
       <<73018, 73018>>, <<73020, 73021>>, <<73023, 73029>>, <<73031, 73031>>,
       <<73104, 73105>>, <<73109, 73109>>, <<73111, 73111>>, <<73459, 73460>>,
       <<78896, 78904>>, <<92912, 92916>>, <<92976, 92982>>, <<92992, 92995>>,
       <<94031, 94031>>, <<94095, 94111>>, <<94176, 94177>>, <<94179, 94180>>,
       <<110576, 110579>>, <<110581, 110587>>, <<110589, 110590>>,
       <<113821, 113822>>, <<113824, 113827>>, <<118528, 118573>>,
       <<118576, 118598>>, <<119143, 119145>>, <<119155, 119170>>,
       <<119173, 119179>>, <<119210, 119213>>, <<119362, 119364>>,
       <<121344, 121398>>, <<121403, 121452>>, <<121461, 121461>>,
       <<121476, 121476>>, <<121499, 121503>>, <<121505, 121519>>,
       <<122880, 122886>>, <<122888, 122904>>, <<122907, 122913>>,
       <<122915, 122916>>, <<122918, 122922>>, <<123184, 123197>>,
       <<123566, 123566>>, <<123628, 123631>>, <<125136, 125142>>,
       <<125252, 125259>>, <<127995, 127999>>, <<917505, 917505>>,
       <<917536, 917631>>, <<917760, 917999>> >>

InRanges(c, ranges) == \E k \in DOMAIN ranges : ranges[k][1] <= c /\ c <= ranges[k][2]

IsCased(c) == InRanges(c, CasedRanges)

IsCaseIgnorable(c) == InRanges(c, CaseIgnorableRanges)

\* the first index from j on, going by step, whose character is not
\* case-ignorable; 0 or Len(str) + 1 if there is none
RECURSIVE SkipIgnorable(_, _, _)
SkipIgnorable(str, j, step) ==
    IF j < 1 \/ j > Len(str) THEN j
    ELSE IF IsCaseIgnorable(str[j]) THEN SkipIgnorable(str, j + step, step)
    ELSE j

CasedAt(str, j) == j >= 1 /\ j <= Len(str) /\ IsCased(str[j])

\* the lowering of the capital sigma U+03A3 at index i: the final sigma
\* U+03C2 after a cased character and not before one, case-ignorable
\* characters skipped, else U+03C3
handle_capital_sigma(str, i) ==
    IF /\ CasedAt(str, SkipIgnorable(str, i - 1, -1))
       /\ ~CasedAt(str, SkipIgnorable(str, i + 1, 1))
    THEN 962 ELSE 963

\* the first n of the pieces, joined
RECURSIVE Concat(_, _)
Concat(pieces, n) == IF n = 0 THEN <<>> ELSE Concat(pieces, n - 1) \o pieces[n]

\* str.lower()
StrLower(str) ==
    Concat([i \in 1..Len(str) |->
               IF str[i] = 931 THEN <<handle_capital_sigma(str, i)>>
               ELSE LowerChar(str[i])], Len(str))

StrContains(sub, str) ==
    \E i \in 0..(Len(str) - Len(sub)) : SubSeq(str, i + 1, i + Len(sub)) = sub

-----------------------------------------------------------------------------
(* math.exp, on the arguments -g * x the model's engines and distances     *)
(* produce: the binary64 value the C library returns for each.             *)

ExpTable ==
    { <<FZero, FInt(1)>>,                                  \* exp(-0.0) = 1.0
      <<FNeg(FDec(1, 10)),                                 \* exp(-0.1) = 0.9048374180359595
        [s |-> 0, m |-> <<5533, 6613, 26843, 115>>, e |-> -52]>>,
      <<FNeg(FDec(2, 10)),                                 \* exp(-0.2) = 0.8187307530779818
        [s |-> 0, m |-> <<24921, 11308, 19499, 209>>, e |-> -53]>>,
      <<FNeg(FInt(2)),                                     \* exp(-2.0) = 0.1353352832366127
        [s |-> 0, m |-> <<24691, 20959, 21162, 34>>, e |-> -53]>>,
      <<FDec(2, 10),                                       \* exp(0.2) = 1.2214027581601699
        [s |-> 0, m |-> <<11405, 15537, 11126, 156>>, e |-> -52]>>,
      <<FDec(5, 10),                                       \* exp(0.5) = 1.6487212707001282
        [s |-> 0, m |-> <<423, 18191, 24873, 52>>, e |-> -50]>>,
      <<FInt(1),                                           \* exp(1.0) = 2.718281828459045
        [s |-> 0, m |-> <<22377, 5672, 31786, 173>>, e |-> -51]>>,
      <<FNeg(FDec(4, 10)),                                 \* exp(-0.4) = 0.6703200460356393
        [s |-> 0, m |-> <<14455, 1650, 26246, 85>>, e |-> -52]>>,
      <<FNeg(FDec(5, 10)),                                 \* exp(-0.5) = 0.6065306597126334
        [s |-> 0, m |-> <<19205, 31855, 20837, 77>>, e |-> -52]>>,
      <<FNeg(FInt(1)),                                     \* exp(-1.0) = 0.36787944117144233
        [s |-> 0, m |-> <<7655, 3467, 17835, 23>>, e |-> -51]>>,
      <<[s |-> 0, m |-> <<3379, 28635, 263, 206>>, e |-> -52],    \* exp(1.6094379124341003) = 4.999999999999999
        [s |-> 0, m |-> <<32767, 32767, 32767, 159>>, e |-> -50]>>,
      <<[s |-> 0, m |-> <<10891, 15285, 22371, 73>>, e |-> -50],  \* exp(2.302585092994046) = 10.000000000000002
        [s |-> 0, m |-> <<1, 0, 0, 160>>, e |-> -49]>>,
      <<[s |-> 0, m |-> <<23217, 25242, 27579, 36>>, e |-> -49],  \* exp(2.3026042372633544) = 10.000191444525614
        [s |-> 0, m |-> <<29689, 12191, 100, 160>>, e |-> -49]>> }

MathExp(z) == (CHOOSE p \in ExpTable : p[1] = z)[2]

-----------------------------------------------------------------------------
(* BertaudAuditEngine.calculate_optimal_density                            *)

Yellow == Str(<<"y", "e", "l", "l", "o", "w">>)

\* lines 71-79: the thresholds, with the contextual override
lower_limit == FDec(8, 10)

UpperLimit(zone_color) ==
    IF zone_color.some /\ zone_color.v # <<>>
          /\ StrContains(Yellow, StrLower(zone_color.v))
    THEN FDec(11, 10)
    ELSE FDec(12, 10)

\* lines 83-92: the first if-chain ("Granular Status Logic")
GranularStatus(efficiency_index, upper_limit) ==
    IF FLt(efficiency_index, FSub(lower_limit, FDec(1, 10))) THEN "Under-utilization"
    ELSE IF FLt(efficiency_index, lower_limit) THEN "Low Density Warning"
    ELSE IF FGt(efficiency_index, FAdd(upper_limit, FDec(1, 10))) THEN "Over-densification"
    ELSE IF FGt(efficiency_index, upper_limit) THEN "High Density Warning"
    ELSE "Optimal"

\* lines 117-130: the second if-chain ("Dynamic Logic"), which assigns status
\* again in each of its five branches
DynamicStatus(status, efficiency_index, upper_limit) ==
    LET optimal_low  == lower_limit
        optimal_high == FSub(upper_limit, FDec(1, 10))
    IN  IF FLt(efficiency_index, FSub(optimal_low, FDec(1, 10))) THEN "Under-utilization"
        ELSE IF FLt(efficiency_index, optimal_low) THEN "Low Density Warning"
        ELSE IF FLe(efficiency_index, optimal_high) THEN "Optimal"
        ELSE IF FLe(efficiency_index, upper_limit) THEN "High Density Warning"
        ELSE "Over-densification"

\* lines 60-62
TheoreticalDensity(self_d0, self_g, distance_km) ==
    FMul(self_d0, MathExp(FMul(FNeg(self_g), distance_km)))

\* the zero branch reporting full efficiency instead of 0
EfficiencyIndexZeroAsOne(proposed_density, theoretical_density) ==
    IF FIsZero(theoretical_density) THEN FInt(1)
    ELSE FDiv(proposed_density, theoretical_density)

\* the zero branch passing the proposal on undivided
EfficiencyIndexZeroAsProposed(proposed_density, theoretical_density) ==
    IF FIsZero(theoretical_density) THEN proposed_density
    ELSE FDiv(proposed_density, theoretical_density)

\* lines 64-68
EfficiencyIndex(proposed_density, theoretical_density) ==
    IF FIsZero(theoretical_density) THEN FZero
    ELSE FDiv(proposed_density, theoretical_density)

\* an empty dict
EmptyDict == [k \in {} |-> None]

\* the upgrade threshold taken as >= 1.0
PolicyRecommendationGe(theoretical_density, legal_far_limit) ==
    LET far_gap        == FSub(theoretical_density, legal_far_limit)
        is_constrained == FGt(far_gap, FZero)
    IN  IF is_constrained /\ FGe(far_gap, FInt(1))
        THEN "Request Zoning Upgrade (Upsize)"
        ELSE IF ~is_constrained
                  /\ FGt(FSub(legal_far_limit, theoretical_density), FInt(2))
        THEN "Zone Over-supply (Focus on infrastructure)"
        ELSE "None"

\* lines 137-144
PolicyRecommendation(theoretical_density, legal_far_limit) ==
    LET far_gap        == FSub(theoretical_density, legal_far_limit)
        is_constrained == FGt(far_gap, FZero)
    IN  IF is_constrained /\ FGt(far_gap, FInt(1))
        THEN "Request Zoning Upgrade (Upsize)"
        ELSE IF ~is_constrained
                  /\ FGt(FSub(legal_far_limit, theoretical_density), FInt(2))
        THEN "Zone Over-supply (Focus on infrastructure)"
        ELSE "None"

\* the limit tested by truth value ("if legal_far_limit:"), so that 0 counts as absent
GapAnalysisTruthy(theoretical_density, legal_far_limit) ==
    IF legal_far_limit.some /\ ~FIsZero(legal_far_limit.v)
    THEN LET far_gap == FSub(theoretical_density, legal_far_limit.v)
         IN  [legal_max_far          |-> legal_far_limit.v,
              theoretical_demand_far |-> theoretical_density,
              far_mismatch_gap       |-> far_gap,
              is_constraint_active   |-> FGt(far_gap, FZero),
              policy_recommendation  |->
                  PolicyRecommendation(theoretical_density, legal_far_limit.v)]
    ELSE EmptyDict

\* lines 132-152
GapAnalysis(theoretical_density, legal_far_limit) ==
    IF legal_far_limit.some
    THEN LET far_gap == FSub(theoretical_density, legal_far_limit.v)
         IN  [legal_max_far          |-> legal_far_limit.v,
              theoretical_demand_far |-> theoretical_density,
              far_mismatch_gap       |-> far_gap,
              is_constraint_active   |-> FGt(far_gap, FZero),
              policy_recommendation  |->
                  PolicyRecommendation(theoretical_density, legal_far_limit.v)]
    ELSE EmptyDict

\* the whole method, lines 43-163: the dict it returns
calculate_optimal_density(self_d0, self_g, q) ==
    LET theoretical_density == TheoreticalDensity(self_d0, self_g, q.distance_km)
        efficiency_index    == EfficiencyIndex(q.proposed_density, theoretical_density)
        upper_limit         == UpperLimit(q.zone_color)
        status              == DynamicStatus(GranularStatus(efficiency_index, upper_limit),
                                             efficiency_index, upper_limit)
    IN  [distance_km         |-> q.distance_km,
         theoretical_density |-> theoretical_density,
         proposed_density    |-> q.proposed_density,
         efficiency_index    |-> efficiency_index,
         status              |-> status,
         gap_analysis        |-> GapAnalysis(theoretical_density, q.legal_far_limit),
         input_land_cost     |-> q.land_cost_e,
         input_capital_k     |-> q.capital_k]

-----------------------------------------------------------------------------
(* The inputs the density specification draws from.                        *)

MaxProposedHalves == 27      \* proposed densities 0.0, 0.5, ... in steps of 0.5
MaxLegalFar == 13            \* legal FAR limits 0, 1, ...

EngineD0s == {FInt(0), FInt(5), FInt(10)}
EngineGs  == {FZero, FDec(1, 10)}
Distances == {FInt(0), FInt(5)}

ZoneColors ==
    { None,
      Some(<<>>),
      Some(Str(<<"Y", "e", "l", "l", "o", "w">>)),
      Some(Str(<<"L", "i", "g", "h", "t", " ", "Y", "E", "L", "L", "O", "W">>)),
      Some(Str(<<"R", "e", "d">>)) }

ProposedDensities == {FDiv(FInt(n), FInt(2)) : n \in 0..MaxProposedHalves}
LegalFarLimits == {Some(FInt(n)) : n \in 0..MaxLegalFar}

Query(x, p, l, z) ==
    [capital_k |-> FZero, land_cost_e |-> FZero, distance_km |-> x,
     proposed_density |-> p, legal_far_limit |-> l, zone_color |-> z]

\* every proposal in every zone without a legal limit, and one proposal
\* against every legal limit
DensityQueries ==
    {Query(x, p, None, z) : x \in Distances, p \in ProposedDensities, z \in ZoneColors}
    \cup {Query(x, FInt(6), l, None) : x \in Distances, l \in LegalFarLimits}

-----------------------------------------------------------------------------
(* The density engine as a state machine: an engine is constructed, then   *)
(* callers query it.                                                       *)

InitDensity ==
    /\ pc = "idle"
    /\ d0 \in EngineD0s
    /\ g \in EngineGs
    /\ params = None
    /\ call = None
    /\ result = None

CalculateOptimalDensity ==
    /\ pc = "idle"
    /\ \E q \in DensityQueries :
          /\ call' = [op |-> "calculate_optimal_density", args |-> q]
          /\ result' = [kind |-> "return", value |-> calculate_optimal_density(d0, g, q)]
    /\ pc' = "returned"
    /\ UNCHANGED <<d0, g, params>>

\* the caller takes the result
Return ==
    /\ pc = "returned"
    /\ pc' = "idle"
    /\ call' = None
    /\ result' = None
    /\ UNCHANGED <<d0, g, params>>

NextDensity == CalculateOptimalDensity \/ Return

SpecDensity == InitDensity /\ [][NextDensity]_vars

-----------------------------------------------------------------------------
(* Claims about calculate_optimal_density, checked under SpecDensity.      *)

DensityReturned == pc = "returned" /\ call.op = "calculate_optimal_density"

IsYellow(zone_color) == zone_color.some /\ StrContains(Yellow, StrLower(zone_color.v))

\* the five bands as the claim states them, with the thresholds 0.7 and 0.8
BandOf(efficiency_index, upper_limit) ==
    IF FLt(efficiency_index, FDec(7, 10)) THEN "Under-utilization"
    ELSE IF FLt(efficiency_index, FDec(8, 10)) THEN "Low Density Warning"
    ELSE IF FLe(efficiency_index, FSub(upper_limit, FDec(1, 10))) THEN "Optimal"
    ELSE IF FLe(efficiency_index, upper_limit) THEN "High Density Warning"
    ELSE "Over-densification"

\* C1: the status returned is the band of the efficiency index: below 0.7
\* Under-utilization, from 0.7 to below 0.8 Low Density Warning, from 0.8 to
\* upperLimit - 0.1 Optimal, above that up to upperLimit High Density Warning,
\* above upperLimit Over-densification.
C1_StatusIsBand ==
    DensityReturned =>
        result.value.status =
            BandOf(result.value.efficiency_index, UpperLimit(call.args.zone_color))

\* C2: an index in (1.1, 1.2] is Over-densification in a yellow zone and High
\* Density Warning otherwise; an index in (1.0, 1.1] is High Density Warning
\* in a yellow zone and Optimal otherwise; below 0.8 the status is the one the
\* same query gets without a zone colour.
C2_YellowBands ==
    DensityReturned =>
        LET idx    == result.value.efficiency_index
            status == result.value.status
            yellow == IsYellow(call.args.zone_color)
        IN  /\ (FGt(idx, FDec(11, 10)) /\ FLe(idx, FDec(12, 10)))
                  => status = IF yellow THEN "Over-densification"
                                        ELSE "High Density Warning"
            /\ (FGt(idx, FInt(1)) /\ FLe(idx, FDec(11, 10)))
                  => status = IF yellow THEN "High Density Warning" ELSE "Optimal"
            /\ FLt(idx, FDec(8, 10))
                  => status = calculate_optimal_density(
                                  d0, g, [call.args EXCEPT !.zone_color = None]).status

\* idx is the float nearest to p / t: p - idx * t is at most half a unit in
\* the last place of idx, times t (p >= 0, t > 0)
IsQuotient(idx, p, t) ==
    IF FIsZero(idx) THEN FIsZero(p)
    ELSE LET halfUlp == XPow2(idx.e + BitLen(idx.m) - MantBits - 1)
         IN  FLe(FAbs(XSub(p, XMul(idx, t))), XMul(halfUlp, t))

\* C3: the efficiency index returned is proposed_density / theoretical_density
\* (to the nearest float) when theoretical_density is not 0 and exactly 0 when
\* it is 0, and the call returns instead of raising.
C3_EfficiencyIndex ==
    DensityReturned =>
        /\ result.kind = "return"
        /\ LET v == result.value
           IN  IF FIsZero(v.theoretical_density)
               THEN v.efficiency_index = FZero
               ELSE IsQuotient(v.efficiency_index, call.args.proposed_density,
                               v.theoretical_density)

\* C3 witness: a proposal above 0 where the theoretical density is 0
C3_Witness ==
    /\ DensityReturned
    /\ FIsZero(result.value.theoretical_density)
    /\ FGt(call.args.proposed_density, FZero)
    /\ result.value.efficiency_index = FZero

\* C4: gap_analysis is empty exactly when no legal limit is supplied; with a
\* limit (0 included) it holds the limit, the theoretical density, their
\* difference, and is_constraint_active true iff the difference is above 0.
C4_GapAnalysis ==
    DensityReturned =>
        LET v     == result.value
            gap   == v.gap_analysis
            limit == call.args.legal_far_limit
        IN  /\ (DOMAIN gap = {}) <=> ~limit.some
            /\ limit.some =>
                  /\ gap.legal_max_far = limit.v
                  /\ gap.theoretical_demand_far = v.theoretical_density
                  /\ gap.far_mismatch_gap = FSub(v.theoretical_density, limit.v)
                  /\ gap.is_constraint_active <=> FGt(gap.far_mismatch_gap, FZero)

\* C4 witness: a legal limit of 0 against a positive theoretical density
C4_Witness ==
    /\ DensityReturned
    /\ call.args.legal_far_limit = Some(FZero)
    /\ DOMAIN result.value.gap_analysis # {}
    /\ result.value.gap_analysis.is_constraint_active

\* C5: with a legal limit, the recommendation is the zoning upgrade iff the
\* gap is above 1.0, the over-supply one iff legal - theoretical is above 2.0,
\* and "None" for every gap from -2.0 to 1.0, both ends included.
C5_PolicyRecommendation ==
    (DensityReturned /\ call.args.legal_far_limit.some) =>
        LET v     == result.value
            gap   == v.gap_analysis.far_mismatch_gap
            rec   == v.gap_analysis.policy_recommendation
            over  == FSub(call.args.legal_far_limit.v, v.theoretical_density)
        IN  /\ rec = "Request Zoning Upgrade (Upsize)" <=> FGt(gap, FInt(1))
            /\ rec = "Zone Over-supply (Focus on infrastructure)" <=> FGt(over, FInt(2))
            /\ rec = "None" <=> (FGe(gap, FInt(-2)) /\ FLe(gap, FInt(1)))
            /\ ~(FGt(gap, FInt(1)) /\ FGt(over, FInt(2)))

\* C5 witness: the two ends of the "None" range are the gap of some query
C5_Witness ==
    /\ DensityReturned
    /\ call.args.legal_far_limit.some
    /\ result.value.gap_analysis.far_mismatch_gap = FInt(1)
    /\ result.value.gap_analysis.policy_recommendation = "None"

-----------------------------------------------------------------------------
(* FinancialParams: the fields, their bounds and their defaults.           *)

\* float('inf'): above every finite float
FInf == [s |-> 0, m |-> <<1>>, e |-> 1024]

\* lines 18-23: the validator of lease_term_years
check_lease_logic(v) == ~(v > 100)

\* every bound but the upper bound of the discount rate being strict
FieldsOkDiscountLt(kw) ==
    /\ FGe(kw.upfront_fee, FZero)
    /\ FGe(kw.initial_annual_rent, FZero)
    /\ kw.lease_term_years > 0 /\ kw.lease_term_years <= 100
    /\ FGe(kw.discount_rate, FZero) /\ FLt(kw.discount_rate, FInt(1))
    /\ FGe(kw.investment_cost, FZero)
    /\ kw.asset_useful_life_years > 0
    /\ kw.rent_escalation_rate.some => FGe(kw.rent_escalation_rate.v, FZero)
    /\ kw.escalation_interval_years.some => kw.escalation_interval_years.v > 0

\* lines 9-16: the constraints of the Field declarations (ge, gt, le) on the
\* keyword arguments given; an omitted argument has nothing to violate
FieldsOk(kw) ==
    /\ FGe(kw.upfront_fee, FZero)
    /\ FGe(kw.initial_annual_rent, FZero)
    /\ kw.lease_term_years > 0 /\ kw.lease_term_years <= 100
    /\ FGe(kw.discount_rate, FZero) /\ FLe(kw.discount_rate, FInt(1))
    /\ FGe(kw.investment_cost, FZero)
    /\ kw.asset_useful_life_years > 0
    /\ kw.rent_escalation_rate.some => FGe(kw.rent_escalation_rate.v, FZero)
    /\ kw.escalation_interval_years.some => kw.escalation_interval_years.v > 0

\* lines 15-16: the defaults of the two escalation fields
default_rent_escalation_rate == FDec(15, 100)
default_escalation_interval_years == 3

\* FinancialParams(**kw), lines 5-23: the record, or the ValidationError
FinancialParams(kw) ==
    IF FieldsOk(kw) /\ check_lease_logic(kw.lease_term_years)
    THEN [kind |-> "return",
          value |->
            [upfront_fee               |-> kw.upfront_fee,
             initial_annual_rent       |-> kw.initial_annual_rent,
             lease_term_years          |-> kw.lease_term_years,
             discount_rate             |-> kw.discount_rate,
             investment_cost           |-> kw.investment_cost,
             asset_useful_life_years   |-> kw.asset_useful_life_years,
             rent_escalation_rate      |->
                 IF kw.rent_escalation_rate.some THEN kw.rent_escalation_rate.v
                 ELSE default_rent_escalation_rate,
             escalation_interval_years |->
                 IF kw.escalation_interval_years.some THEN kw.escalation_interval_years.v
                 ELSE default_escalation_interval_years]]
    ELSE [kind |-> "raise", exc |-> "ValidationError"]

-----------------------------------------------------------------------------
(* FinancialAudit.calculate_state_npv and calculate_return_on_asset        *)

\* the escalation also applied in year 1
EscalatedRentFromYearOne(p, year, current_rent) ==
    IF (year - 1) % p.escalation_interval_years = 0
    THEN FMul(current_rent, FAdd(FInt(1), p.rent_escalation_rate))
    ELSE current_rent

\* lines 47-48 and 147-148: the rent of a year, from the rent of the year before
EscalatedRent(p, year, current_rent) ==
    IF year > 1 /\ (year - 1) % p.escalation_interval_years = 0
    THEN FMul(current_rent, FAdd(FInt(1), p.rent_escalation_rate))
    ELSE current_rent

\* the rate subtracted from 1
DiscountFactorMinus(p, year) == FPow(FSub(FInt(1), p.discount_rate), year)

\* the factor of year 1 in every year
DiscountFactorFlat(p, year) == FAdd(FInt(1), p.discount_rate)

\* lines 51, 65: (1 + params.discount_rate) ** year
DiscountFactor(p, year) == FPow(FAdd(FInt(1), p.discount_rate), year)

\* lines 42, 45-48: current_rent after the iterations of the years
\* first..last, from current_rent before them (the years are run as two
\* halves, one after the other)
RECURSIVE CurrentRent(_, _, _, _)
CurrentRent(p, current_rent, first, last) ==
    IF first > last THEN current_rent
    ELSE IF first = last THEN EscalatedRent(p, first, current_rent)
    ELSE CHOOSE rent \in
             { CurrentRent(p, half, (first + last) \div 2 + 1, last) :
                 half \in {CurrentRent(p, current_rent, first, (first + last) \div 2)} } :
             TRUE

\* lines 45-53: npv after the iterations of the years first..last, from npv
\* before them
RECURSIVE NpvAfter(_, _, _, _)
NpvAfter(p, npv, first, last) ==
    IF first > last THEN npv
    ELSE IF first = last
    THEN FAdd(npv, FDiv(CurrentRent(p, p.initial_annual_rent, 1, first),
                        DiscountFactor(p, first)))
    ELSE CHOOSE sum \in
             { NpvAfter(p, half, (first + last) \div 2 + 1, last) :
                 half \in {NpvAfter(p, npv, first, (first + last) \div 2)} } :
             TRUE

\* the residual value without the branch for an asset outlived by the lease
ResidualValueNoFloor(p) ==
    FMul(p.investment_cost,
         FDiv(FInt(p.asset_useful_life_years - p.lease_term_years),
              FInt(p.asset_useful_life_years)))

\* lines 57-62 and 153-156: straight-line residual value at the end of the lease
ResidualValue(p) ==
    IF p.lease_term_years < p.asset_useful_life_years
    THEN FMul(p.investment_cost,
              FDiv(FInt(p.asset_useful_life_years - p.lease_term_years),
                   FInt(p.asset_useful_life_years)))
    ELSE FZero

\* lines 31-68 (lines 36-39: npv is 0.0 plus the upfront fee before the loop)
calculate_state_npv(p) ==
    FAdd(NpvAfter(p, FAdd(FZero, p.upfront_fee), 1, p.lease_term_years),
         FDiv(ResidualValue(p), DiscountFactor(p, p.lease_term_years)))

\* the rent never escalated
TotalNominalRentFlat(p, year) == FMul(FInt(year), p.initial_annual_rent)

\* lines 143-149: total_nominal_rent after the iteration of year
RECURSIVE TotalNominalRent(_, _)
TotalNominalRent(p, year) ==
    IF year = 0 THEN FZero
    ELSE FAdd(TotalNominalRent(p, year - 1),
              CurrentRent(p, p.initial_annual_rent, 1, year))

\* lines 158-159
AverageAnnualBenefit(p) ==
    FDiv(FAdd(FAdd(p.upfront_fee, TotalNominalRent(p, p.lease_term_years)),
              ResidualValue(p)),
         FInt(p.lease_term_years))

\* lines 161-162
RoaPercent(p, average_annual_benefit) ==
    FMul(IF FGt(p.investment_cost, FZero)
         THEN FDiv(average_annual_benefit, p.investment_cost)
         ELSE FZero,
         FInt(100))

\* the target met only above 3.0
RoaResultAboveTarget(roa_percent, average_annual_benefit) ==
    [roa_percent            |-> roa_percent,
     average_annual_benefit |-> average_annual_benefit,
     status                 |-> IF FLe(roa_percent, FInt(3)) THEN "Below Target"
                                ELSE "On Target"]

\* lines 164-172
RoaResult(roa_percent, average_annual_benefit) ==
    [roa_percent            |-> roa_percent,
     average_annual_benefit |-> average_annual_benefit,
     status                 |-> IF FLt(roa_percent, FInt(3)) THEN "Below Target"
                                ELSE "On Target"]

RoaOf(p, average_annual_benefit) ==
    RoaResult(RoaPercent(p, average_annual_benefit), average_annual_benefit)

\* lines 133-172
calculate_return_on_asset(p) == RoaOf(p, AverageAnnualBenefit(p))

-----------------------------------------------------------------------------
(* FinancialAudit.validate_construction_cost                               *)

\* dict.get(key, default) on a dict given as its set of <<key, value>> items
DictGet(dict, key, default) ==
    IF \E item \in dict : item[1] = key
    THEN (CHOOSE item \in dict : item[1] = key)[2]
    ELSE default

\* lines 85-88
base_benchmarks ==
    { <<Str(<<"l", "o", "w", "-", "r", "i", "s", "e">>), Some(FInt(15000))>>,
      <<Str(<<"h", "i", "g", "h", "-", "r", "i", "s", "e">>), Some(FInt(30000))>> }

\* lines 94-100
location_factors ==
    { <<Str(<<"b", "a", "n", "g", "k", "o", "k">>), FInt(1)>>,
      <<Str(<<"p", "h", "u", "k", "e", "t">>), FDec(115, 100)>>,
      <<Str(<<"c", "h", "i", "a", "n", "g", " ", "m", "a", "i">>), FDec(105, 100)>>,
      <<Str(<<"c", "h", "o", "n", "b", "u", "r", "i">>), FDec(102, 100)>>,
      <<Str(<<"u", "d", "o", "n", " ", "t", "h", "a", "n", "i">>), FDec(95, 100)>> }

\* line 111: f"Building type '{building_type}' not recognized."
UnknownTypeMessage(building_type) ==
    Str(<<"B", "u", "i", "l", "d", "i", "n", "g", " ", "t", "y", "p", "e", " ", "'">>)
        \o building_type
        \o Str(<<"'", " ", "n", "o", "t", " ", "r", "e", "c", "o", "g", "n", "i", "z", "e", "d", ".">>)

\* lines 117-131
CostVerdict(proposed_cost_per_sqm, province, base_standard, location_factor, adjusted_standard_cost, deviation) ==
    [status                 |-> IF FGt(FAbs(deviation), FDec(20, 100))
                                THEN "Cost Anomaly Detected" ELSE "Pass",
     deviation_percent      |-> FMul(deviation, FInt(100)),
     base_standard_cost     |-> base_standard,
     location_factor        |-> location_factor,
     adjusted_standard_cost |-> adjusted_standard_cost,
     province_context       |-> province]

\* the deviation measured against the base benchmark
CostDeviationFromBase(proposed_cost_per_sqm, province, base_standard, location_factor, adjusted_standard_cost) ==
    CostVerdict(proposed_cost_per_sqm, province, base_standard, location_factor,
                adjusted_standard_cost,
                FDiv(FSub(proposed_cost_per_sqm, base_standard), base_standard))

\* line 117
CostDeviation(proposed_cost_per_sqm, province, base_standard, location_factor, adjusted_standard_cost) ==
    CostVerdict(proposed_cost_per_sqm, province, base_standard, location_factor,
                adjusted_standard_cost,
                FDiv(FSub(proposed_cost_per_sqm, adjusted_standard_cost),
                     adjusted_standard_cost))

\* lines 107-115
CostAgainst(proposed_cost_per_sqm, building_type, province, location_factor, base_standard) ==
    IF ~base_standard.some
    THEN [status            |-> "Unknown Type",
          deviation_percent |-> FZero,
          message           |-> UnknownTypeMessage(building_type)]
    ELSE CostDeviation(proposed_cost_per_sqm, province, base_standard.v,
                       location_factor, FMul(base_standard.v, location_factor))

\* the two lookups without lower()
validate_construction_cost_cased(proposed_cost_per_sqm, building_type, province) ==
    CostAgainst(proposed_cost_per_sqm, building_type, province,
                DictGet(location_factors, province, FInt(1)),
                DictGet(base_benchmarks, building_type, None))

\* line 76: the province of a call that names none
default_province == Str(<<"B", "a", "n", "g", "k", "o", "k">>)

\* lines 72-131
validate_construction_cost(proposed_cost_per_sqm, building_type, province) ==
    CostAgainst(proposed_cost_per_sqm, building_type, province,
                DictGet(location_factors, StrLower(province), FInt(1)),
                DictGet(base_benchmarks, StrLower(building_type), None))

-----------------------------------------------------------------------------
(* FinancialAudit.calculate_breakeven_lease_term                           *)

\* math.log, on the arguments 1 - ratio and 1 + discount_rate the model's
\* break-even queries produce: the binary64 value the C library returns.
LogTable ==
    { <<[s |-> 0, m |-> <<3>>, e |-> -3],                      \* log(0.375) = -0.9808292530117262
        [s |-> 1, m |-> <<5367, 485, 12666, 31>>, e |-> -50]>>,
      <<[s |-> 0, m |-> <<7>>, e |-> -3],                      \* log(0.875) = -0.13353139262452263
        [s |-> 1, m |-> <<31007, 16659, 6030, 34>>, e |-> -53]>>,
      <<[s |-> 0, m |-> <<7623, 933, 32747, 255>>, e |-> -53],   \* log(0.9999975) = -2.500003125021586e-06
        [s |-> 1, m |-> <<11687, 356, 25309, 167>>, e |-> -71]>>,
      <<[s |-> 0, m |-> <<21433, 12404, 32765, 63>>, e |-> -51], \* log(0.99999875) = -1.2500007812033289e-06
        [s |-> 1, m |-> <<2769, 18830, 25305, 167>>, e |-> -72]>>,
      <<[s |-> 0, m |-> <<8573, 31176, 32766, 255>>, e |-> -53], \* log(0.999999875) = -1.250000078299729e-07
        [s |-> 1, m |-> <<19661, 12887, 3567, 67>>, e |-> -74]>>,
      <<FInt(1), FZero>>,                                      \* log(1.0) = 0.0
      <<[s |-> 0, m |-> <<19661, 6553, 13107, 134>>, e |-> -52], \* log(1.05) = 0.04879016416943205
        [s |-> 0, m |-> <<11391, 18398, 16065, 12>>, e |-> -53]>>,
      <<FDec(15, 10),                                          \* log(1.5) = 0.4054651081081644
        [s |-> 0, m |-> <<26131, 30303, 29475, 51>>, e |-> -52]>>,
      <<FInt(2),                                               \* log(2.0) = 0.6931471805599453
        [s |-> 0, m |-> <<14831, 32244, 14603, 177>>, e |-> -53]>>,
      <<[s |-> 0, m |-> <<29529, 1521, 14463, 171>>, e |-> -1049], \* log(1e-300) = -690.7755278982137
        [s |-> 1, m |-> <<32693, 4080, 22737, 172>>, e |-> -43]>>,
      <<FDec(3678, 1000),                                      \* log(3.678) = 1.3023691261821293
        [s |-> 0, m |-> <<5857, 290, 22145, 41>>, e |-> -50]>>,
      <<[s |-> 0, m |-> <<5507, 17336, 23639, 117>>, e |-> -50],   \* log(3.6787944117144233) = 1.3025850929940457
        [s |-> 0, m |-> <<10795, 28373, 23949, 166>>, e |-> -52]>>,
      <<FInt(5),                                               \* log(5.0) = 1.6094379124341003
        [s |-> 0, m |-> <<3379, 28635, 263, 206>>, e |-> -52]>>,
      <<FDec(6065, 1000),                                      \* log(6.065) = 1.8025345423960135
        [s |-> 0, m |-> <<631, 30168, 11868, 115>>, e |-> -51]>>,
      <<[s |-> 0, m |-> <<24291, 24005, 17119, 48>>, e |-> -48],   \* log(6.065306597126334) = 1.8025850929940457
        [s |-> 0, m |-> <<10795, 28373, 23949, 230>>, e |-> -52]>>,
      <<FInt(10),                                              \* log(10.0) = 2.302585092994046
        [s |-> 0, m |-> <<10891, 15285, 22371, 73>>, e |-> -50]>>,
      <<[s |-> 0, m |-> <<7527, 17408, 25660, 47>>, e |-> 946],    \* log(1e+300) = 690.7755278982137
        [s |-> 0, m |-> <<32693, 4080, 22737, 172>>, e |-> -43]>> }

MathLog(z) == (CHOOSE p \in LogTable : p[1] = z)[2]

\* line 194: the division raises when math.log(1 + discount_rate) is 0
BreakevenYears(log_remaining, log_growth) ==
    IF FIsZero(log_growth) THEN Raises("ZeroDivisionError")
    ELSE Returns(FDiv(FNeg(log_remaining), log_growth))

\* lines 191-195
BreakevenAt(ratio, discount_rate) ==
    IF FGe(ratio, FInt(1)) THEN Returns(FInf)
    ELSE BreakevenYears(MathLog(FSub(FInt(1), ratio)),
                        MathLog(FAdd(FInt(1), discount_rate)))

\* lines 174-195
calculate_breakeven_lease_term(investment_cost, annual_net_cashflow, discount_rate) ==
    IF FLe(annual_net_cashflow, FZero) THEN Returns(FInf)
    ELSE BreakevenAt(FDiv(FMul(investment_cost, discount_rate), annual_net_cashflow),
                     discount_rate)

\* the keyword arguments of FinancialParams(...)
Kwargs(upfront, rent, term, rate, investment, life, escalation, interval) ==
    [upfront_fee               |-> upfront,
     initial_annual_rent       |-> rent,
     lease_term_years          |-> term,
     discount_rate             |-> rate,
     investment_cost           |-> investment,
     asset_useful_life_years   |-> life,
     rent_escalation_rate      |-> escalation,
     escalation_interval_years |-> interval]

\* lines 207-208
asset_life == 50
base_discount == FDec(5, 100)

\* run_scenario, lines 210-220: the NPV of the parameters built for one rate,
\* or the ValidationError of building them
run_scenario(upfront, initial_rent, lease_years, invest_cost, rate) ==
    LET built == FinancialParams(Kwargs(upfront, initial_rent, lease_years, rate,
                                        invest_cost, asset_life, None, None))
    IN  IF built.kind = "return" THEN Returns(calculate_state_npv(built.value))
        ELSE built

\* lines 222-230: the base scenario runs first, then the two of the dict
SensitivityResult(base_npv, plus, minus) ==
    IF base_npv.kind = "raise" THEN base_npv
    ELSE IF plus.kind = "raise" THEN plus
    ELSE IF minus.kind = "raise" THEN minus
    ELSE Returns(("Base Case" :> base_npv.value) @@
                 ("Discount Rate Sensitivity" :>
                     (("+2% Rate" :> plus.value) @@ ("-2% Rate" :> minus.value))))

\* lines 203-206: the four keys read from the dict and their defaults
SensitivityOf(upfront, initial_rent, lease_years, invest_cost) ==
    SensitivityResult(
        run_scenario(upfront, initial_rent, lease_years, invest_cost, base_discount),
        run_scenario(upfront, initial_rent, lease_years, invest_cost,
                     FAdd(base_discount, FDec(2, 100))),
        run_scenario(upfront, initial_rent, lease_years, invest_cost,
                     FSub(base_discount, FDec(2, 100))))

\* lines 197-230; base_params is a dict, a set of <<key, value>>
perform_sensitivity_analysis(base_params) ==
    SensitivityOf(DictGet(base_params, "upfront_fee", FZero),
                  DictGet(base_params, "initial_annual_rent", FZero),
                  DictGet(base_params, "lease_years", 30),
                  DictGet(base_params, "investment_cost", FZero))

-----------------------------------------------------------------------------
(* The inputs the financial specifications draw from.                      *)

MaxTerm == 5                 \* lease terms 1, 2, ... of the audited leases

\* keyword arguments on, inside and outside every bound; None is an omitted
\* argument
ParamsKwargs ==
    { Kwargs(u, r, t, dr, i, l, e, n) :
        u \in {FInt(-1), FZero}, r \in {FInt(-1), FZero}, t \in {0, 1, 100, 101},
        dr \in {FDec(-1, 100), FZero, FInt(1), FDec(101, 100)},
        i \in {FInt(-1), FZero}, l \in {0, 1},
        e \in {None, Some(FDec(-1, 10)), Some(FZero)},
        n \in {None, Some(0), Some(1)} }

\* the validated parameters of the leases audited
AuditKwargs ==
    { Kwargs(u, FInt(10), t, dr, i, l, e, n) :
        u \in {FZero, FInt(50)}, t \in 1..MaxTerm,
        dr \in {FZero, FDec(35, 1000), FInt(1)},
        i \in {FZero, FInt(1000)}, l \in {3, 50},
        e \in {None, Some(FZero)}, n \in {None, Some(1)} }

\* leases whose return on the asset is just below, on and just above 3%
TargetKwargs ==
    { Kwargs(u, FInt(10), 1, FDec(35, 1000), FInt(1000), 1, None, None) :
        u \in {FInt(19), FInt(20), FInt(21)} }

ValidParams == {FinancialParams(kw).value : kw \in AuditKwargs \cup TargetKwargs}

\* the parameters at the edges: no discounting, nothing invested
EdgeParams ==
    { p \in ValidParams :
        /\ p.upfront_fee = FInt(50)
        /\ p.lease_term_years \in {1, 3}
        /\ p.discount_rate \in {FZero, FDec(35, 1000)}
        /\ p.asset_useful_life_years = 3
        /\ p.rent_escalation_rate = default_rent_escalation_rate
        /\ p.escalation_interval_years = default_escalation_interval_years }

ProposedCosts ==
    {FInt(c) : c \in {0, 11400, 12000, 13800, 15000, 17100, 18000, 18001,
                      20700, 20701, 36001}}

BuildingTypes ==
    { Str(<<"l", "o", "w", "-", "r", "i", "s", "e">>),
      Str(<<"L", "O", "W", "-", "R", "I", "S", "E">>),
      Str(<<"H", "i", "g", "h", "-", "R", "i", "s", "e">>),
      Str(<<"v", "i", "l", "l", "a">>),
      \* 'LOW-R\u0130SE', which lowers to 'low-ri\u0307se'
      Str(<<"L", "O", "W", "-", "R">>) \o <<304>> \o Str(<<"S", "E">>),
      <<>> }

\* None: the call names no province
Provinces ==
    { None,
      Some(Str(<<"B", "a", "n", "g", "k", "o", "k">>)),
      Some(Str(<<"P", "H", "U", "K", "E", "T">>)),
      Some(Str(<<"p", "h", "u", "k", "e", "t">>)),
      Some(Str(<<"C", "h", "i", "a", "n", "g", " ", "M", "a", "i">>)),
      Some(Str(<<"U", "d", "o", "n", " ", "T", "h", "a", "n", "i">>)),
      Some(Str(<<"M", "a", "r", "s">>)),
      \* 'PHU\u212aET' with the Kelvin sign, which lowers to 'phuket', and
      \* 'CH\u0130ANG MA\u0130', which lowers to no province of the table
      Some(Str(<<"P", "H", "U">>) \o <<8490>> \o Str(<<"E", "T">>)),
      Some(Str(<<"C", "H">>) \o <<304>> \o Str(<<"A", "N", "G", " ", "M", "A">>) \o <<304>>) }

CostQueries ==
    { [proposed_cost_per_sqm |-> c, building_type |-> b, province |-> v] :
        c \in ProposedCosts, b \in BuildingTypes, v \in Provinces }

BreakevenQueries ==
    { [investment_cost |-> i, annual_net_cashflow |-> c, discount_rate |-> r] :
        i \in {FZero, FInt(100), FInt(500000000)},
        c \in {FInt(-40), FZero, FInt(40), FInt(40000000)},
        r \in {FZero, FDec(5, 100), FDec(5, 10), FInt(1)} }

\* the dict of the keys given; None is a key the dict does not have
BaseParams(upfront, rent, lease_years, rate, investment) ==
    LET given == ("upfront_fee" :> upfront) @@ ("initial_annual_rent" :> rent) @@
                 ("lease_years" :> lease_years) @@ ("discount_rate" :> rate) @@
                 ("investment_cost" :> investment)
    IN  { <<k, given[k].v>> : k \in {key \in DOMAIN given : given[key].some} }

\* an upfront fee next to which a rent of 10 is lost in rounding
HugeFee == XPow2(60)

\* base parameters with each key given or not, a lease of no years, a dict
\* with no lease_years, and the dict of verify_finance.py
SensitivityQueries ==
    { BaseParams(u, r, t, dr, i) :
        u \in {None, Some(FInt(50)), Some(HugeFee)},
        r \in {None, Some(FInt(10))},
        t \in {Some(0), Some(2), Some(3)},
        dr \in {None, Some(FDec(35, 1000))},
        i \in {None, Some(FInt(1000))} }
    \cup { BaseParams(Some(FInt(50)), Some(FInt(10)), None, None, Some(FInt(1000))),
           BaseParams(Some(FInt(50000000)), Some(FInt(12000000)), Some(30),
                      None, Some(FZero)) }

\* the NPV scenario of the specification at the rate r
ScenarioParams(r) ==
    FinancialParams(Kwargs(FInt(50000000), FInt(10000000), 30, r,
                           FInt(1000000000), 50, None, None)).value

\* validated parameters that differ in the discount rate: a lease of three
\* years with an ordinary upfront fee, a lease of one year with a huge one,
\* and the scenario
RateParams ==
    { FinancialParams(Kwargs(ut[1], FInt(10), ut[2], dr, FInt(1000), 50, None, None)).value :
        ut \in {<<FInt(50), 3>>, <<HugeFee, 1>>},
        dr \in {FZero, FDec(35, 1000), FDec(55, 1000)} }
    \cup { ScenarioParams(FDec(35, 1000)),
           ScenarioParams(FAdd(FDec(35, 1000), FDec(2, 100))) }

-----------------------------------------------------------------------------
(* The financial engine as state machines: parameters are constructed from *)
(* keyword arguments; an audit holds validated parameters and is queried.  *)

InitParams ==
    /\ pc = "idle"
    /\ d0 = None
    /\ g = None
    /\ params = None
    /\ call = None
    /\ result = None

ConstructOutcome(kw, outcome) ==
    /\ call' = [op |-> "FinancialParams", args |-> kw]
    /\ result' = outcome
    /\ params' = IF outcome.kind = "return" THEN outcome.value ELSE params

\* FinancialParams(**kw): the record replaces the one held, a failure leaves it
Construct ==
    /\ pc = "idle"
    /\ \E kw \in ParamsKwargs : ConstructOutcome(kw, FinancialParams(kw))
    /\ pc' = "returned"
    /\ UNCHANGED <<d0, g>>

NextParams == Construct \/ Return

SpecParams == InitParams /\ [][NextParams]_vars

InitNpv ==
    /\ pc = "idle"
    /\ d0 = None
    /\ g = None
    /\ params \in ValidParams
    /\ call = None
    /\ result = None

CalculateStateNpv ==
    /\ pc = "idle"
    /\ call' = [op |-> "calculate_state_npv", args |-> params]
    /\ result' = Returns(calculate_state_npv(params))
    /\ pc' = "returned"
    /\ UNCHANGED <<d0, g, params>>

CalculateReturnOnAsset ==
    /\ pc = "idle"
    /\ call' = [op |-> "calculate_return_on_asset", args |-> params]
    /\ result' = Returns(calculate_return_on_asset(params))
    /\ pc' = "returned"
    /\ UNCHANGED <<d0, g, params>>

NextNpv == CalculateStateNpv \/ CalculateReturnOnAsset \/ Return

SpecNpv == InitNpv /\ [][NextNpv]_vars

InitAudit ==
    /\ pc = "idle"
    /\ d0 = None
    /\ g = None
    /\ params \in EdgeParams
    /\ call = None
    /\ result = None

ValidateConstructionCost ==
    /\ pc = "idle"
    /\ \E q \in CostQueries :
          /\ call' = [op |-> "validate_construction_cost", args |-> q]
          /\ result' = Returns(validate_construction_cost(
                                   q.proposed_cost_per_sqm, q.building_type,
                                   IF q.province.some THEN q.province.v
                                   ELSE default_province))
    /\ pc' = "returned"
    /\ UNCHANGED <<d0, g, params>>

CalculateBreakevenLeaseTerm ==
    /\ pc = "idle"
    /\ \E q \in BreakevenQueries :
          /\ call' = [op |-> "calculate_breakeven_lease_term", args |-> q]
          /\ result' = calculate_breakeven_lease_term(
                           q.investment_cost, q.annual_net_cashflow, q.discount_rate)
    /\ pc' = "returned"
    /\ UNCHANGED <<d0, g, params>>

PerformSensitivityAnalysis ==
    /\ pc = "idle"
    /\ \E q \in SensitivityQueries :
          /\ call' = [op |-> "perform_sensitivity_analysis", args |-> q]
          /\ result' = perform_sensitivity_analysis(q)
    /\ pc' = "returned"
    /\ UNCHANGED <<d0, g, params>>

NextAudit ==
    \/ CalculateStateNpv
    \/ CalculateReturnOnAsset
    \/ ValidateConstructionCost
    \/ CalculateBreakevenLeaseTerm
    \/ Return

SpecAudit == InitAudit /\ [][NextAudit]_vars

\* an audit that is asked for NPVs and for sensitivity analyses
InitSensitivity ==
    /\ pc = "idle"
    /\ d0 = None
    /\ g = None
    /\ params \in RateParams
    /\ call = None
    /\ result = None

NextSensitivity == CalculateStateNpv \/ PerformSensitivityAnalysis \/ Return

SpecSensitivity == InitSensitivity /\ [][NextSensitivity]_vars

-----------------------------------------------------------------------------
(* Claims about calculate_state_npv and calculate_return_on_asset, checked *)
(* under SpecNpv.                                                          *)

NpvReturned == pc = "returned" /\ call.op = "calculate_state_npv"
RoaReturned == pc = "returned" /\ call.op = "calculate_return_on_asset"

\* a and b differ by less than 2^-45 of their magnitudes: the roundings of
\* two ways of evaluating one formula on floats
FClose(a, b) == FLe(FAbs(FSub(a, b)), FMul(XPow2(-45), FAdd(FAbs(a), FAbs(b))))

\* rent_y = initial_annual_rent * (1 + rent_escalation_rate)^floor((y - 1) / interval)
ClaimRent(p, y) ==
    FMul(p.initial_annual_rent,
         FPowNearest(FAdd(FInt(1), p.rent_escalation_rate),
                     (y - 1) \div p.escalation_interval_years))

\* the sum over the years y..lease_term_years of rent_y / (1 + discount_rate)^y
RECURSIVE ClaimRentSum(_, _)
ClaimRentSum(p, y) ==
    IF y > p.lease_term_years THEN FZero
    ELSE FAdd(FDiv(ClaimRent(p, y), FPowNearest(FAdd(FInt(1), p.discount_rate), y)),
              ClaimRentSum(p, y + 1))

\* investment_cost * (life - term) / life for a lease shorter than the life, else 0
ClaimResidual(p) ==
    IF p.lease_term_years < p.asset_useful_life_years
    THEN FDiv(FMul(p.investment_cost,
                   FInt(p.asset_useful_life_years - p.lease_term_years)),
              FInt(p.asset_useful_life_years))
    ELSE FZero

ClaimDiscountedResidual(p) ==
    FDiv(ClaimResidual(p), FPowNearest(FAdd(FInt(1), p.discount_rate), p.lease_term_years))

ClaimNpv(p) ==
    FAdd(FAdd(p.upfront_fee, ClaimRentSum(p, 1)), ClaimDiscountedResidual(p))

\* C6: the NPV returned is upfront_fee + the sum over y = 1..lease_term_years
\* of rent_y / (1 + discount_rate)^y + residual / (1 + discount_rate)^term,
\* with rent_y = initial_annual_rent * (1 + rate)^floor((y - 1) / interval):
\* no escalation in year 1, one at the start of each year y > 1 with
\* (y - 1) mod interval = 0.
C6_NpvFormula ==
    NpvReturned =>
        /\ result.kind = "return"
        /\ FClose(result.value, ClaimNpv(call.args))

\* C6 witness: a discounted lease long enough for the default escalation
\* (15% every 3 years) to have raised the rent
C6_Witness ==
    /\ NpvReturned
    /\ call.args.lease_term_years >= 4
    /\ call.args.rent_escalation_rate = FDec(15, 100)
    /\ call.args.escalation_interval_years = 3
    /\ call.args.discount_rate = FDec(35, 1000)
    /\ FGt(result.value, FInt(4 * 10))

NoInvestment(p) == [p EXCEPT !.investment_cost = FZero]

\* the value with an investment is the value without one plus the residual
\* (discounted or not), is the same when the lease outlives the asset, and
\* is never below it
AddsResidual(p, with, without, residual) ==
    /\ FClose(with, FAdd(without, residual))
    /\ p.lease_term_years >= p.asset_useful_life_years => with = without
    /\ FGe(with, without)

\* C7: the residual value is investment_cost * (life - term) / life when the
\* lease is shorter than the asset's life and exactly 0 otherwise, never
\* negative; the NPV holds it once, discounted by (1 + discount_rate)^term,
\* and the benefit of the ROA holds it once, undiscounted.
C7_ResidualValue ==
    /\ NpvReturned =>
          AddsResidual(call.args, result.value,
                       calculate_state_npv(NoInvestment(call.args)),
                       ClaimDiscountedResidual(call.args))
    /\ RoaReturned =>
          AddsResidual(call.args,
                       FMul(result.value.average_annual_benefit,
                            FInt(call.args.lease_term_years)),
                       FMul(calculate_return_on_asset(NoInvestment(call.args))
                                .average_annual_benefit,
                            FInt(call.args.lease_term_years)),
                       ClaimResidual(call.args))

\* C7 witness: an investment in an asset the lease outlives adds nothing to the NPV
C7_Witness ==
    /\ NpvReturned
    /\ call.args.lease_term_years > call.args.asset_useful_life_years
    /\ FGt(call.args.investment_cost, FZero)
    /\ result.value = calculate_state_npv(NoInvestment(call.args))

-----------------------------------------------------------------------------
(* Claims about the construction of FinancialParams, checked under         *)
(* SpecParams.                                                             *)

\* the bounds as the claim lists them, on the values the fields take
ClaimBounds(kw) ==
    LET rate     == IF kw.rent_escalation_rate.some THEN kw.rent_escalation_rate.v
                    ELSE FDec(15, 100)
        interval == IF kw.escalation_interval_years.some
                    THEN kw.escalation_interval_years.v ELSE 3
    IN  /\ FGe(kw.upfront_fee, FZero)
        /\ FGe(kw.initial_annual_rent, FZero)
        /\ kw.lease_term_years \in 1..100
        /\ FGe(kw.discount_rate, FZero) /\ FLe(kw.discount_rate, FInt(1))
        /\ FGe(kw.investment_cost, FZero)
        /\ kw.asset_useful_life_years > 0
        /\ FGe(rate, FZero)
        /\ interval > 0

ConstructStep == pc = "idle" /\ pc' = "returned" /\ call'.op = "FinancialParams"

\* C8: a construction returns a record iff every bound holds; the record
\* holds the arguments, with rate 0.15 and interval 3 for the omitted ones;
\* otherwise it raises a validation error and the record held is unchanged.
C8_Construction ==
    [][ConstructStep =>
          IF ClaimBounds(call'.args)
          THEN /\ result'.kind = "return"
               /\ params' = result'.value
               /\ params'.lease_term_years = call'.args.lease_term_years
               /\ params'.discount_rate = call'.args.discount_rate
               /\ params'.rent_escalation_rate =
                      IF call'.args.rent_escalation_rate.some
                      THEN call'.args.rent_escalation_rate.v ELSE FDec(15, 100)
               /\ params'.escalation_interval_years =
                      IF call'.args.escalation_interval_years.some
                      THEN call'.args.escalation_interval_years.v ELSE 3
          ELSE /\ result' = [kind |-> "raise", exc |-> "ValidationError"]
               /\ params' = params]_vars

\* C8 witness: every argument on its bound, the escalation fields omitted
C8_Witness ==
    /\ pc = "returned"
    /\ call.op = "FinancialParams"
    /\ call.args = Kwargs(FZero, FZero, 100, FInt(1), FZero, 1, None, None)
    /\ result.kind = "return"
    /\ params.rent_escalation_rate = FDec(15, 100)
    /\ params.escalation_interval_years = 3

-----------------------------------------------------------------------------
(* Claims about the stateless computations of FinancialAudit, checked      *)
(* under SpecAudit.                                                        *)

BreakevenReturned == pc = "returned" /\ call.op = "calculate_breakeven_lease_term"

\* floor(a) of a float 0 <= a < Base
FloorInt(a) ==
    IF FIsZero(a) THEN 0
    ELSE IF a.e >= 0 THEN a.m[1] * Pow2(a.e)
    ELSE Limb(BShr(a.m, -a.e), 1)

FSquare(a) == FMul(a, a)

\* a^n by squaring, each product rounded
RECURSIVE FPowSquaring(_, _)
FPowSquaring(a, n) ==
    IF n = 0 THEN FInt(1)
    ELSE IF n % 2 = 0 THEN FSquare(FPowSquaring(a, n \div 2))
    ELSE FMul(a, FPowSquaring(a, n - 1))

\* the present value of cashflow a year for n whole years at rate > 0:
\* cashflow * (1 - (1 + rate)^-n) / rate
Annuity(cashflow, rate, n) ==
    FDiv(FMul(cashflow,
              FSub(FInt(1), FDiv(FInt(1), FPowSquaring(FAdd(FInt(1), rate), n)))),
         rate)

\* years is where the annuity reaches the investment: the whole years below
\* it do not exceed it and the whole years above it cover it (to 2^-40)
BreaksEvenAt(q, years) ==
    /\ FLe(Annuity(q.annual_net_cashflow, q.discount_rate, FloorInt(years)),
           FMul(q.investment_cost, FAdd(FInt(1), XPow2(-40))))
    /\ FGe(Annuity(q.annual_net_cashflow, q.discount_rate, FloorInt(years) + 1),
           FMul(q.investment_cost, FSub(FInt(1), XPow2(-40))))

ClaimNever(q) ==
    \/ FLe(q.annual_net_cashflow, FZero)
    \/ FGe(FDiv(FMul(q.investment_cost, q.discount_rate), q.annual_net_cashflow),
           FInt(1))

\* C9: the break-even term is infinity iff the cash flow is not above 0 or
\* investment_cost * discount_rate / annual_net_cashflow is at least 1; in
\* every other case it is a finite number of years, not below 0, at which
\* the present value of the annuity equals the investment; for 500,000,000
\* invested, 40,000,000 a year and a rate of 0.05 it is between 15 and 25.
C9_BreakevenSentinel ==
    BreakevenReturned =>
        IF ClaimNever(call.args) THEN result = Returns(FInf)
        ELSE /\ result.kind = "return"
             /\ result.value # FInf
             /\ FGe(result.value, FZero)
             /\ BreaksEvenAt(call.args, result.value)
             /\ (/\ call.args.investment_cost = FInt(500000000)
                 /\ call.args.annual_net_cashflow = FInt(40000000)
                 /\ call.args.discount_rate = FDec(5, 100))
                    => FGt(result.value, FInt(15)) /\ FLt(result.value, FInt(25))

\* C10: on validated parameters and on any cost, building type, province,
\* investment >= 0, cash flow and rate in [0, 1], every computation of the
\* engine returns: none raises.
C10_NoRaise == pc = "returned" => result.kind = "return"

-----------------------------------------------------------------------------
(* Claims about calculate_return_on_asset, checked under SpecNpv.          *)

\* the sum over the years y..lease_term_years of rent_y, undiscounted
RECURSIVE ClaimNominalRent(_, _)
ClaimNominalRent(p, y) ==
    IF y > p.lease_term_years THEN FZero
    ELSE FAdd(ClaimRent(p, y), ClaimNominalRent(p, y + 1))

ClaimBenefit(p) ==
    FDiv(FAdd(FAdd(p.upfront_fee, ClaimNominalRent(p, 1)), ClaimResidual(p)),
         FInt(p.lease_term_years))

\* C11: average_annual_benefit is (upfront_fee + total nominal rent + nominal
\* terminal value) / lease_term_years; roa_percent is 100 * benefit /
\* investment_cost for an investment above 0 and exactly 0 for none; status
\* is 'Below Target' iff roa_percent < 3.0 and 'On Target' otherwise.
C11_ReturnOnAsset ==
    RoaReturned =>
        /\ result.kind = "return"
        /\ FClose(result.value.average_annual_benefit, ClaimBenefit(call.args))
        /\ IF FGt(call.args.investment_cost, FZero)
           THEN FClose(result.value.roa_percent,
                       FDiv(FMul(FInt(100), result.value.average_annual_benefit),
                            call.args.investment_cost))
           ELSE result.value.roa_percent = FZero
        /\ result.value.status = "Below Target" <=> FLt(result.value.roa_percent, FInt(3))
        /\ result.value.status = "On Target" <=> FGe(result.value.roa_percent, FInt(3))

\* C11 witness: a return of exactly 3.0 percent is on target
C11_Witness ==
    /\ RoaReturned
    /\ result.value.roa_percent = FInt(3)
    /\ result.value.status = "On Target"

NoDiscount(p) == [p EXCEPT !.discount_rate = FZero]

\* C12: average_annual_benefit * lease_term_years is the NPV of the same
\* parameters at a discount rate of 0: the same rents and terminal value.
C12_RoaIsUndiscountedNpv ==
    RoaReturned =>
        FClose(FMul(result.value.average_annual_benefit,
                    FInt(call.args.lease_term_years)),
               calculate_state_npv(NoDiscount(call.args)))

\* C12 witness: a discounted lease whose rent has escalated and whose asset
\* keeps a residual value
C12_Witness ==
    /\ RoaReturned
    /\ call.args.lease_term_years >= 4
    /\ call.args.rent_escalation_rate = FDec(15, 100)
    /\ call.args.escalation_interval_years \in {1, 3}
    /\ call.args.discount_rate = FDec(35, 1000)
    /\ call.args.asset_useful_life_years = 50
    /\ FGt(call.args.investment_cost, FZero)

-----------------------------------------------------------------------------
(* Claims about validate_construction_cost, checked under SpecAudit.       *)

CostReturned == pc = "returned" /\ call.op = "validate_construction_cost"

\* the benchmark of a building type spelled in any case, None for any other
ClaimBenchmark(building_type) ==
    IF StrLower(building_type) = Str(<<"l", "o", "w", "-", "r", "i", "s", "e">>) THEN Some(FInt(15000))
    ELSE IF StrLower(building_type) = Str(<<"h", "i", "g", "h", "-", "r", "i", "s", "e">>) THEN Some(FInt(30000))
    ELSE None

ClaimTableProvinces ==
    { Str(<<"b", "a", "n", "g", "k", "o", "k">>),
      Str(<<"p", "h", "u", "k", "e", "t">>),
      Str(<<"c", "h", "i", "a", "n", "g", " ", "m", "a", "i">>),
      Str(<<"c", "h", "o", "n", "b", "u", "r", "i">>),
      Str(<<"u", "d", "o", "n", " ", "t", "h", "a", "n", "i">>) }

ProvinceIs(province, name) == province.some /\ StrLower(province.v) = name

\* C13: for a recognized building type adjusted_standard_cost is the base
\* benchmark (15000 low-rise, 30000 high-rise) times the location factor
\* (1.15 in Phuket, 0.95 in Udon Thani), deviation is (proposed - adjusted) /
\* adjusted, deviation_percent is 100 * deviation, and status is 'Cost
\* Anomaly Detected' iff |deviation| > 0.20, else 'Pass'.
C13_CostDeviation ==
    (CostReturned /\ ClaimBenchmark(call.args.building_type).some) =>
        LET v         == result.value
            base      == ClaimBenchmark(call.args.building_type).v
            adjusted  == FMul(base, v.location_factor)
            deviation == FDiv(FSub(call.args.proposed_cost_per_sqm, adjusted), adjusted)
        IN  /\ v.base_standard_cost = base
            /\ v.adjusted_standard_cost = adjusted
            /\ ProvinceIs(call.args.province, Str(<<"p", "h", "u", "k", "e", "t">>))
                  => v.location_factor = FDec(115, 100)
            /\ ProvinceIs(call.args.province, Str(<<"u", "d", "o", "n", " ", "t", "h", "a", "n", "i">>))
                  => v.location_factor = FDec(95, 100)
            /\ v.deviation_percent = FMul(FInt(100), deviation)
            /\ v.status = "Cost Anomaly Detected" <=> FGt(FAbs(deviation), FDec(20, 100))
            /\ v.status = "Pass" <=> FLe(FAbs(deviation), FDec(20, 100))

\* C13 witness: 20% above the Phuket standard of a low-rise passes, though
\* it is 38% above the base benchmark
C13_Witness ==
    /\ CostReturned
    /\ call.args.proposed_cost_per_sqm = FInt(20700)
    /\ call.args.building_type = Str(<<"l", "o", "w", "-", "r", "i", "s", "e">>)
    /\ ProvinceIs(call.args.province, Str(<<"p", "h", "u", "k", "e", "t">>))
    /\ result.value.deviation_percent = FInt(20)
    /\ result.value.status = "Pass"

\* C14: building type and province are matched in any case; any other
\* building type returns 'Unknown Type' with deviation_percent 0; a province
\* outside the table, or none, has location factor 1.0 and the base
\* benchmark as its adjusted standard.
C14_CaseAndUnknown ==
    CostReturned =>
        LET v    == result.value
            base == ClaimBenchmark(call.args.building_type)
        IN  /\ result.kind = "return"
            /\ ~base.some => v.status = "Unknown Type" /\ v.deviation_percent = FZero
            /\ base.some =>
                  /\ v.status # "Unknown Type"
                  /\ v.base_standard_cost = base.v
                  /\ ProvinceIs(call.args.province, Str(<<"p", "h", "u", "k", "e", "t">>))
                        => v.location_factor = FDec(115, 100)
                  /\ (\A name \in ClaimTableProvinces : ~ProvinceIs(call.args.province, name))
                        => /\ v.location_factor = FInt(1)
                           /\ v.adjusted_standard_cost = base.v

\* C14 witness: an upper-case building type in an upper-case province
C14_Witness ==
    /\ CostReturned
    /\ call.args.building_type = Str(<<"L", "O", "W", "-", "R", "I", "S", "E">>)
    /\ call.args.province = Some(Str(<<"P", "H", "U", "K", "E", "T">>))
    /\ result.value.status = "Pass"
    /\ result.value.location_factor = FDec(115, 100)

-----------------------------------------------------------------------------
(* Claims about perform_sensitivity_analysis and the discount rate, checked *)
(* under SpecSensitivity.                                                   *)

SensitivityReturned == pc = "returned" /\ call.op = "perform_sensitivity_analysis"

HasKey(dict, key) == \E item \in dict : item[1] = key

\* the NPV of the base parameters of the dict at the discount rate given
ClaimScenarioNpv(base_params, rate) ==
    calculate_state_npv(
        FinancialParams(Kwargs(DictGet(base_params, "upfront_fee", FZero),
                               DictGet(base_params, "initial_annual_rent", FZero),
                               DictGet(base_params, "lease_years", 30), rate,
                               DictGet(base_params, "investment_cost", FZero),
                               asset_life, None, None)).value)

ClaimThreeScenarios(base_params, base, value) ==
    /\ value["Base Case"] = ClaimScenarioNpv(base_params, base)
    /\ value["Discount Rate Sensitivity"]["+2% Rate"]
         = ClaimScenarioNpv(base_params, FAdd(base, FDec(2, 100)))
    /\ value["Discount Rate Sensitivity"]["-2% Rate"]
         = ClaimScenarioNpv(base_params, FSub(base, FDec(2, 100)))

\* C15: a sensitivity analysis of base parameters that supply a discount rate
\* returns the NPV at that rate as 'Base Case', and the NPVs at that rate plus
\* 0.02 and minus 0.02 as '+2% Rate' and '-2% Rate', the other parameters
\* being those supplied
C15_ScenariosAroundBaseRate ==
    (SensitivityReturned /\ result.kind = "return" /\ HasKey(call.args, "discount_rate")) =>
        ClaimThreeScenarios(call.args, DictGet(call.args, "discount_rate", None), result.value)

\* q is p at a higher discount rate
AtHigherRate(p, q) ==
    /\ q = [p EXCEPT !.discount_rate = q.discount_rate]
    /\ FGt(q.discount_rate, p.discount_rate)

\* the rent is not lost in rounding: it is at least 1, the upfront fee is at
\* most 2^20 times the rent
RentCounts(upfront_fee, initial_annual_rent) ==
    /\ FGe(initial_annual_rent, FInt(1))
    /\ FLe(upfront_fee, FMul(XPow2(20), initial_annual_rent))

IsFinite(x) == FLt(FAbs(x), FInf)

ScenarioIsPositive ==
    (NpvReturned /\ params = ScenarioParams(FDec(35, 1000))) =>
        FGt(result.value, FZero) /\ IsFinite(result.value)

\* C16, as stated: with a rent above 0 the NPV at a higher discount rate is
\* strictly smaller, the '+2% Rate' of a sensitivity analysis is strictly
\* below its 'Base Case', and the scenario 50,000,000 / 10,000,000 / 30 /
\* 0.035 / 1,000,000,000 / 50 has a positive finite NPV
C16_HigherRateStrictlyLower ==
    /\ (NpvReturned /\ FGt(params.initial_annual_rent, FZero)) =>
          \A q \in RateParams :
              AtHigherRate(params, q) => FLt(calculate_state_npv(q), result.value)
    /\ (SensitivityReturned /\ result.kind = "return"
            /\ FGt(DictGet(call.args, "initial_annual_rent", FZero), FZero)) =>
          FLt(result.value["Discount Rate Sensitivity"]["+2% Rate"],
              result.value["Base Case"])
    /\ ScenarioIsPositive

\* C16, amended: with a rent above 0 the NPV at a higher discount rate is
\* never larger, and it is strictly smaller when the rent is at least 1, the
\* upfront fee at most 2^20 times the rent, the rates at least 2^-20 apart
\* and the NPVs finite; so for '+2% Rate' and 'Base Case'; the scenario has a
\* positive finite NPV
C16_HigherRateNotHigher ==
    /\ (NpvReturned /\ FGt(params.initial_annual_rent, FZero)) =>
          \A q \in RateParams :
              AtHigherRate(params, q) =>
                  /\ FLe(calculate_state_npv(q), result.value)
                  /\ (/\ RentCounts(params.upfront_fee, params.initial_annual_rent)
                      /\ FGe(FSub(q.discount_rate, params.discount_rate), XPow2(-20))
                      /\ IsFinite(result.value))
                       => FLt(calculate_state_npv(q), result.value)
    /\ (SensitivityReturned /\ result.kind = "return"
            /\ FGt(DictGet(call.args, "initial_annual_rent", FZero), FZero)) =>
          /\ FLe(result.value["Discount Rate Sensitivity"]["+2% Rate"],
                 result.value["Base Case"])
          /\ (/\ RentCounts(DictGet(call.args, "upfront_fee", FZero),
                            DictGet(call.args, "initial_annual_rent", FZero))
              /\ IsFinite(result.value["Base Case"]))
               => FLt(result.value["Discount Rate Sensitivity"]["+2% Rate"],
                      result.value["Base Case"])
    /\ ScenarioIsPositive

\* the NPV of the scenario, 524,596,134.6..., above its NPV at the rate 0.055
C16_Witness ==
    /\ NpvReturned
    /\ params = ScenarioParams(FDec(35, 1000))
    /\ FGt(result.value, FInt(524596134))
    /\ FLt(result.value, FInt(524596135))
    /\ FLt(calculate_state_npv(ScenarioParams(FAdd(FDec(35, 1000), FDec(2, 100)))),
           result.value)

-----------------------------------------------------------------------------
(* BertaudAuditEngine.calculate_polycentric_density. A dict is the sequence *)
(* of its <<key, value>> items in insertion order, the order a loop over    *)
(* it takes; its keys are distinct.                                         *)

ItemsHave(items, key) == \E i \in 1..Len(items) : items[i][1] = key

ItemsGet(items, key) == items[CHOOSE i \in 1..Len(items) : items[i][1] = key][2]

\* lines 177-180: d0_i * math.exp(-g_i * dist_km) for the center's parameters
CenterDensity(center, dist_km) ==
    FMul(DictGet(center, "d0", FZero),
         MathExp(FMul(FNeg(DictGet(center, "g", FZero)), dist_km)))

\* total_density assigned, not added to
RECURSIVE TotalDensityAssigned(_, _, _)
TotalDensityAssigned(distance_map, centers_config, n) ==
    IF n = 0 THEN FZero
    ELSE IF ItemsHave(centers_config, distance_map[n][1])
    THEN CenterDensity(ItemsGet(centers_config, distance_map[n][1]),
                       distance_map[n][2])
    ELSE TotalDensityAssigned(distance_map, centers_config, n - 1)

\* lines 174-180: total_density after the first n items of distance_map
RECURSIVE TotalDensity(_, _, _)
TotalDensity(distance_map, centers_config, n) ==
    IF n = 0 THEN FZero
    ELSE IF ItemsHave(centers_config, distance_map[n][1])
    THEN FAdd(TotalDensity(distance_map, centers_config, n - 1),
              CenterDensity(ItemsGet(centers_config, distance_map[n][1]),
                            distance_map[n][2]))
    ELSE TotalDensity(distance_map, centers_config, n - 1)

\* lines 165-182
calculate_polycentric_density(distance_map, centers_config) ==
    TotalDensity(distance_map, centers_config, Len(distance_map))

-----------------------------------------------------------------------------
(* BertaudAuditEngine.calibrate_parameters and validate_inputs              *)

\* math.exp raises OverflowError above 709.782712893384 and returns 0.0 from
\* -745.1332191019412 down
ExpOverflowsAbove == [s |-> 0, m |-> <<14831, 32244, 14603, 177>>, e |-> -43]
ExpIsZeroFrom == [s |-> 1, m |-> <<6185, 21805, 4641, 93>>, e |-> -42]

MathExpOrRaise(z) ==
    IF FGt(z, ExpOverflowsAbove) THEN Raises("OverflowError")
    ELSE IF FLe(z, ExpIsZeroFrom) THEN Returns(FZero)
    ELSE Returns(MathExp(z))

\* line 194, with every density kept
AllSamples(samples) ==
    [i \in 1..Len(samples) |-> <<samples[i][1], MathLog(samples[i][2])>>]

\* line 194: valid_samples
ValidSamples(samples) ==
    AllSamples(SelectSeq(samples, LAMBDA sample : FGt(sample[2], FZero)))

\* the sum of the first n values, without rounding
RECURSIVE ExactSum(_, _)
ExactSum(values, n) ==
    IF n = 0 THEN FZero ELSE XAdd(ExactSum(values, n - 1), values[n])

\* statistics.mean: the exact sum over the count, rounded once
Mean(values) == FDiv(ExactSum(values, Len(values)), FInt(Len(values)))

\* sum() of floats on CPython before 3.12: the first n terms added one
\* after the other
RECURSIVE FloatSum(_, _)
FloatSum(terms, n) ==
    IF n = 0 THEN FZero ELSE FAdd(FloatSum(terms, n - 1), terms[n])

\* one term x added to the running sum f_result with the compensation c,
\* t being f_result + x
CompensatedAdd(f_result, c, x, t) ==
    <<t, FAdd(c, IF FCmpMag(f_result, x) >= 0 THEN FAdd(FSub(f_result, t), x)
                 ELSE FAdd(FSub(x, t), f_result))>>

CompensatedStep(acc, x) == CompensatedAdd(acc[1], acc[2], x, FAdd(acc[1], x))

\* <<f_result, c>> after the first n terms: the first term is added to the
\* start value 0 as an object, the others in the loop over floats
RECURSIVE CompensatedTerms(_, _)
CompensatedTerms(terms, n) ==
    IF n = 1 THEN <<FAdd(FZero, terms[1]), FZero>>
    ELSE CompensatedStep(CompensatedTerms(terms, n - 1), terms[n])

\* the compensation is added at the end unless it is 0
CompensatedResult(acc) == IF FIsZero(acc[2]) THEN acc[1] ELSE FAdd(acc[1], acc[2])

\* sum() of floats on CPython 3.12 and later: Neumaier's compensated sum
CompensatedSum(terms, n) ==
    IF n = 0 THEN FZero ELSE CompensatedResult(CompensatedTerms(terms, n))

\* the interpreters the code runs on differ in sum(): compensated is TRUE
\* for CPython 3.12 and later
Interpreters == BOOLEAN

\* sum() of a generator of floats
sum(terms, compensated) ==
    IF compensated THEN CompensatedSum(terms, Len(terms)) ELSE FloatSum(terms, Len(terms))

\* line 206
Numerator(xs, ln_ys, x_mean, y_mean, compensated) ==
    sum([i \in 1..Len(xs) |-> FMul(FSub(xs[i], x_mean), FSub(ln_ys[i], y_mean))],
        compensated)

\* line 207
Denominator(xs, x_mean, compensated) ==
    sum([i \in 1..Len(xs) |-> FPow(FSub(xs[i], x_mean), 2)], compensated)

\* the slope returned as the gradient
EstimateWithSlope(slope, estimated_d0) ==
    IF estimated_d0.kind = "raise" THEN estimated_d0
    ELSE Returns(<<estimated_d0.value, slope>>)

\* lines 216-218: (estimated_d0, estimated_g), or what math.exp raises
Estimate(slope, estimated_d0) ==
    IF estimated_d0.kind = "raise" THEN estimated_d0
    ELSE Returns(<<estimated_d0.value, FNeg(slope)>>)

\* lines 212-218
FitLine(slope, x_mean, y_mean) ==
    Estimate(slope, MathExpOrRaise(FSub(y_mean, FMul(slope, x_mean))))

\* lines 209-212
Fit(x_mean, y_mean, numerator, denominator) ==
    IF FIsZero(denominator) THEN Returns(<<FZero, FZero>>)
    ELSE FitLine(FDiv(numerator, denominator), x_mean, y_mean)

\* lines 199-207
Regression(xs, ln_ys, x_mean, y_mean, compensated) ==
    Fit(x_mean, y_mean, Numerator(xs, ln_ys, x_mean, y_mean, compensated),
        Denominator(xs, x_mean, compensated))

\* lines 196-204
CalibrateValid(valid_samples, compensated) ==
    IF Len(valid_samples) < 2 THEN Returns(<<FZero, FZero>>)
    ELSE Regression([i \in 1..Len(valid_samples) |-> valid_samples[i][1]],
                    [i \in 1..Len(valid_samples) |-> valid_samples[i][2]],
                    Mean([i \in 1..Len(valid_samples) |-> valid_samples[i][1]]),
                    Mean([i \in 1..Len(valid_samples) |-> valid_samples[i][2]]),
                    compensated)

\* lines 184-218, on an interpreter whose sum() is compensated or not
calibrate_parameters(samples, compensated) ==
    CalibrateValid(ValidSamples(samples), compensated)

\* an f-string: its text and the value formatted into it
Message(text, value) == <<text, value>>

\* a value of 0 reported as negative too
ErrorIfNotPositive(text, value) ==
    IF FLe(value, FZero) THEN <<Message(text, value)>> ELSE <<>>

\* lines 35-40: what one test appends to errors
ErrorIfNegative(text, value) ==
    IF FLt(value, FZero) THEN <<Message(text, value)>> ELSE <<>>

\* lines 28-41
validate_inputs(d0_value, g_value, distance_km) ==
    ErrorIfNegative("D0 (Center Density) cannot be negative: ", d0_value)
    \o ErrorIfNegative("Gradient (g) cannot be negative: ", g_value)
    \o ErrorIfNegative("Distance (x) cannot be negative: ", distance_km)

-----------------------------------------------------------------------------
(* The inputs of the polycentric densities, of the calibrations and of the  *)
(* validations.                                                             *)

\* negative values, 0, and the values init_firestore.py validates
ValidatedValues ==
    { FInt(-1), FNeg(FDec(5, 10)), FZero, FDec(15, 100), FDec(25, 10), FInt(20) }

MaxSamples == 3              \* samples in a calibration

\* the samples of a model: its densities 0, 5 and 10 km from the center
SamplesOf(D0, gradient) ==
    { <<x, TheoreticalDensity(D0, gradient, x)>> : x \in {FZero, FInt(5), FInt(10)} }

\* samples that are not valid: no density, a negative density
InvalidSamples == { <<FInt(5), FZero>>, <<FZero, FInt(-1)>> }

\* the sequences of n elements of the set
RECURSIVE SeqsOf(_, _)
SeqsOf(elements, n) ==
    IF n = 0 THEN {<<>>}
    ELSE { Append(rest, element) : rest \in SeqsOf(elements, n - 1), element \in elements }

\* the samples of two models mixed with invalid samples, in every order and
\* with repetitions; the samples of verify_engine_advanced.py; densities
\* that fall and rise by a factor of 1e600 within one km
SampleLists ==
    UNION { SeqsOf(SamplesOf(FInt(10), FDec(1, 10)) \cup InvalidSamples, n) \cup
            SeqsOf(SamplesOf(FInt(5), FZero) \cup InvalidSamples, n) : n \in 0..MaxSamples }
    \cup { << <<FZero, FInt(10)>>, <<FInt(5), FDec(6065, 1000)>>,
              <<FInt(10), FDec(3678, 1000)>> >>,
           << <<FInt(1), [s |-> 0, m |-> <<7527, 17408, 25660, 47>>, e |-> 946]>>,
              <<FInt(2), [s |-> 0, m |-> <<29529, 1521, 14463, 171>>, e |-> -1049]>> >>,
           << <<FInt(1), [s |-> 0, m |-> <<29529, 1521, 14463, 171>>, e |-> -1049]>>,
              <<FInt(2), [s |-> 0, m |-> <<7527, 17408, 25660, 47>>, e |-> 946]>> >> }

MaxCenters == 3              \* centers in a distance_map

\* the distance to each center; "X" is a center no configuration has
CenterDistances ==
    { <<"CBD_1", FInt(5)>>, <<"CBD_2", FInt(2)>>, <<"A", FInt(5)>>, <<"X", FInt(5)>> }

\* the sequences of n distinct items of the set
RECURSIVE Arrangements(_, _)
Arrangements(items, n) ==
    IF n = 0 THEN {<<>>}
    ELSE { Append(rest, item) :
             rest \in Arrangements(items, n - 1), item \in items }

Distinct(items) == \A i, j \in 1..Len(items) : items[i] = items[j] => i = j

DistanceMaps ==
    { m \in UNION { Arrangements(CenterDistances, n) : n \in 0..MaxCenters } :
        Distinct(m) }

\* the centers of verify_engine_advanced.py, and a center of density 0.1
\* that gives no "g"
Centers ==
    << <<"CBD_1", {<<"d0", FInt(10)>>, <<"g", FDec(1, 10)>>}>>,
       <<"CBD_2", {<<"d0", FInt(5)>>, <<"g", FDec(2, 10)>>}>>,
       <<"A", {<<"d0", FDec(1, 10)>>}>> >>

Reversed(items) == [i \in 1..Len(items) |-> items[Len(items) + 1 - i]]

\* the configuration in two orders, and one with a center that gives no
\* "d0" and without the third center
CentersConfigs ==
    { Centers, Reversed(Centers),
      << <<"CBD_2", {<<"g", FDec(2, 10)>>}>>,
         <<"CBD_1", {<<"d0", FInt(10)>>, <<"g", FDec(1, 10)>>}>> >> }

PolycentricQueries ==
    { [distance_map |-> m, centers_config |-> c] :
        m \in DistanceMaps, c \in CentersConfigs }

-----------------------------------------------------------------------------
(* The engine's other operations as a state machine.                        *)

CalculatePolycentricDensity ==
    /\ pc = "idle"
    /\ \E q \in PolycentricQueries :
          /\ call' = [op |-> "calculate_polycentric_density", args |-> q]
          /\ result' = Returns(calculate_polycentric_density(
                                   q.distance_map, q.centers_config))
    /\ pc' = "returned"
    /\ UNCHANGED <<d0, g, params>>

CalibrateParameters ==
    /\ pc = "idle"
    /\ \E samples \in SampleLists, compensated \in Interpreters :
          /\ call' = [op |-> "calibrate_parameters", args |-> samples]
          /\ result' = calibrate_parameters(samples, compensated)
    /\ pc' = "returned"
    /\ UNCHANGED <<d0, g, params>>

ValidateInputs ==
    /\ pc = "idle"
    /\ \E a, b, c \in ValidatedValues :
          /\ call' = [op |-> "validate_inputs",
                      args |-> [d0 |-> a, g |-> b, distance_km |-> c]]
          /\ result' = Returns(validate_inputs(a, b, c))
    /\ pc' = "returned"
    /\ UNCHANGED <<d0, g, params>>

NextEngine ==
    \/ CalculatePolycentricDensity
    \/ CalibrateParameters
    \/ ValidateInputs
    \/ Return

SpecEngine == InitDensity /\ [][NextEngine]_vars

-----------------------------------------------------------------------------
(* Claims about calculate_polycentric_density, checked under SpecEngine.    *)

PolycentricReturned == pc = "returned" /\ call.op = "calculate_polycentric_density"

ItemSet(items) == {items[i] : i \in 1..Len(items)}

KeySet(items) == {items[i][1] : i \in 1..Len(items)}

\* the sum of d0 * e^(-g * x), without rounding, over the center ids given
RECURSIVE ClaimCenterSum(_, _, _)
ClaimCenterSum(ids, distance_map, centers_config) ==
    IF ids = {} THEN FZero
    ELSE LET id     == CHOOSE x \in ids : TRUE
             center == ItemsGet(centers_config, id)
             x_i    == ItemsGet(distance_map, id)
         IN  XAdd(XMul(DictGet(center, "d0", FZero),
                       MathExp(FMul(FNeg(DictGet(center, "g", FZero)), x_i))),
                  ClaimCenterSum(ids \ {id}, distance_map, centers_config))

\* the items of distance_map whose center is configured, in their order
Configured(distance_map, centers_config) ==
    SelectSeq(distance_map, LAMBDA item : ItemsHave(centers_config, item[1]))

\* the result is the sum over the centers in both dicts, and the same
\* without the items of centers that are not configured
IsSumOverBoth(q, density) ==
    /\ FClose(density,
              ClaimCenterSum(KeySet(q.distance_map) \cap KeySet(q.centers_config),
                             q.distance_map, q.centers_config))
    /\ density = calculate_polycentric_density(
                     Configured(q.distance_map, q.centers_config), q.centers_config)

\* the queries with the items of both dicts of q, in any order
Reorderings(q) ==
    { [distance_map |-> m, centers_config |-> c] :
        m \in { a \in Arrangements(ItemSet(q.distance_map), Len(q.distance_map)) :
                  Distinct(a) },
        c \in { r \in CentersConfigs : ItemSet(r) = ItemSet(q.centers_config) } }

OfQuery(q) == calculate_polycentric_density(q.distance_map, q.centers_config)

\* C17, as stated: the density returned is the sum of d0_i * e^(-g_i * x_i)
\* over the centers in both dicts, a center of distance_map alone is skipped,
\* and no order of the items of either dict gives another result
C17_SumInAnyOrder ==
    PolycentricReturned =>
        /\ result.kind = "return"
        /\ IsSumOverBoth(call.args, result.value)
        /\ \A r \in Reorderings(call.args) : OfQuery(r) = result.value

\* C17, amended: the sum is a float sum taken in the order of distance_map;
\* no order of centers_config gives another result, no order of distance_map
\* does when at most two of its centers are configured, and with more the
\* results agree to rounding
C17_SumInMapOrder ==
    PolycentricReturned =>
        /\ result.kind = "return"
        /\ IsSumOverBoth(call.args, result.value)
        /\ \A r \in Reorderings(call.args) :
              /\ FClose(OfQuery(r), result.value)
              /\ (\/ r.distance_map = call.args.distance_map
                  \/ Len(Configured(r.distance_map, r.centers_config)) <= 2)
                   => OfQuery(r) = result.value

\* the location of verify_engine_advanced.py, 5 km from CBD_1 and 2 km from
\* CBD_2, and 5 km from a center that is not configured: 9.4169...
C17_Witness ==
    /\ PolycentricReturned
    /\ call.args.distance_map
         = << <<"CBD_1", FInt(5)>>, <<"X", FInt(5)>>, <<"CBD_2", FInt(2)>> >>
    /\ call.args.centers_config = Reversed(Centers)
    /\ FGt(result.value, FDec(9416, 1000))
    /\ FLt(result.value, FDec(9417, 1000))

-----------------------------------------------------------------------------
(* Claims about calibrate_parameters, checked under SpecEngine.             *)

CalibrateReturned == pc = "returned" /\ call.op = "calibrate_parameters"

\* the samples that remain: those of a density above 0
Remaining(samples) == SelectSeq(samples, LAMBDA sample : FGt(sample[2], FZero))

DistancesOf(samples) == {samples[i][1] : i \in 1..Len(samples)}

Sentinel == Returns(<<FZero, FZero>>)

\* C18: calibrate_parameters returns the sentinel (0, 0) when fewer than 2
\* samples of a density above 0 remain or the remaining distances are all
\* the same, and otherwise returns an estimated D0 above 0; it never raises
C18_SentinelIffTooFew ==
    CalibrateReturned =>
        IF Len(Remaining(call.args)) < 2 \/ Cardinality(DistancesOf(Remaining(call.args))) < 2
        THEN result = Sentinel
        ELSE result.kind = "return" /\ FGt(result.value[1], FZero)

\* the models whose samples are calibrated
GeneratingModels == { <<FInt(10), FDec(1, 10)>>, <<FInt(5), FZero>> }

\* two or more samples of the model, at two or more distances
GeneratedBy(samples, model) ==
    /\ Len(samples) >= 2
    /\ \A i \in 1..Len(samples) : samples[i] \in SamplesOf(model[1], model[2])
    /\ Cardinality(DistancesOf(samples)) >= 2

\* the sum over the samples of the products of the values given, exactly
RECURSIVE ClaimSum(_, _, _)
ClaimSum(xs, ys, n) ==
    IF n = 0 THEN FZero ELSE XAdd(ClaimSum(xs, ys, n - 1), XMul(xs[n], ys[n]))

Ones(n) == [i \in 1..n |-> FInt(1)]

\* n * sum(x * y) - sum(x) * sum(y): the least-squares slope of y on x is
\* ClaimCovariance(xs, ys) / ClaimCovariance(xs, xs)
ClaimCovariance(xs, ys) ==
    XSub(XMul(FInt(Len(xs)), ClaimSum(xs, ys, Len(xs))),
         XMul(ClaimSum(xs, Ones(Len(xs)), Len(xs)), ClaimSum(ys, Ones(Len(ys)), Len(ys))))

\* slope is the least-squares slope of ys on xs, to 2^-40
IsSlope(slope, xs, ys) ==
    FLe(FAbs(XSub(XMul(slope, ClaimCovariance(xs, xs)), ClaimCovariance(xs, ys))),
        XMul(XPow2(-40), ClaimCovariance(xs, xs)))

IsSlopeOfLogs(slope, samples) ==
    IsSlope(slope, [i \in 1..Len(samples) |-> samples[i][1]],
                   [i \in 1..Len(samples) |-> MathLog(samples[i][2])])

\* a is b to 2^-40 of b, or to 2^-40 when b is 0
Recovers(a, b) ==
    FLe(FAbs(XSub(a, b)), XMul(XPow2(-40), IF FIsZero(b) THEN FInt(1) ELSE FAbs(b)))

\* the samples of verify_engine_advanced.py
VerifySamples ==
    << <<FZero, FInt(10)>>, <<FInt(5), FDec(6065, 1000)>>, <<FInt(10), FDec(3678, 1000)>> >>

InVerifyRange(estimate) ==
    /\ FLt(FDec(99, 10), estimate[1]) /\ FLt(estimate[1], FDec(101, 10))
    /\ FLt(FDec(9, 100), estimate[2]) /\ FLt(estimate[2], FDec(11, 100))

\* C19: from two or more samples (x, D0 * e^(-g * x)) of a model at two or
\* more distances calibrate_parameters returns D0 and g to 2^-40, g being
\* minus the least-squares slope of ln(density) on distance; from the samples
\* of D0 = 10, g = 0.1 at 0, 5 and 10 km, also rounded to three decimals, the
\* estimates are within (9.9, 10.1) and (0.09, 0.11)
C19_RoundTrip ==
    CalibrateReturned =>
        /\ \A model \in GeneratingModels :
              GeneratedBy(call.args, model) =>
                  /\ result.kind = "return"
                  /\ Recovers(result.value[1], model[1])
                  /\ Recovers(result.value[2], model[2])
                  /\ IsSlopeOfLogs(FNeg(result.value[2]), call.args)
        /\ (\/ call.args = VerifySamples
            \/ /\ GeneratedBy(call.args, <<FInt(10), FDec(1, 10)>>)
               /\ Cardinality(DistancesOf(call.args)) = 3)
             => result.kind = "return" /\ InVerifyRange(result.value)

\* the three samples of D0 = 10, g = 0.1, calibrated to
\* (10.000000000000002, 0.10000000000000002) with either sum()
C19_Witness ==
    /\ CalibrateReturned
    /\ GeneratedBy(call.args, <<FInt(10), FDec(1, 10)>>)
    /\ Len(call.args) = 3
    /\ Cardinality(DistancesOf(call.args)) = 3
    /\ result.kind = "return"
    /\ FGt(result.value[1], FInt(10))
    /\ FLt(result.value[1], FDec(100000001, 10000000))
    /\ FGt(result.value[2], FDec(1, 10))
    /\ FLt(result.value[2], FDec(10000001, 100000000))

-----------------------------------------------------------------------------
(* Claims about validate_inputs, checked under SpecEngine.                  *)

ValidateStep == pc = "idle" /\ pc' = "returned" /\ call'.op = "validate_inputs"

\* what the messages are about, in the order of the arguments
ClaimSubjects ==
    << "D0 (Center Density) cannot be negative: ",
       "Gradient (g) cannot be negative: ",
       "Distance (x) cannot be negative: " >>

ArgumentsOf(args) == <<args.d0, args.g, args.distance_km>>

\* the positions of the negative arguments
NegativeOf(values) == {i \in 1..3 : FLt(values[i], FZero)}

\* the messages are those of the positions given, in increasing order
AreMessagesOf(messages, positions, values) ==
    /\ Len(messages) = Cardinality(positions)
    /\ \A k \in 1..Len(messages) :
          \E i \in positions :
              /\ Cardinality({j \in positions : j < i}) = k - 1
              /\ messages[k] = <<ClaimSubjects[i], values[i]>>

\* C20: validate_inputs returns one message for each negative value among
\* D0, g and the distance, in that order, so as many messages as negative
\* arguments and none iff all three are at least 0; it changes nothing of
\* the engine and does not raise
C20_ValidateInputs ==
    [][ValidateStep =>
          /\ result'.kind = "return"
          /\ AreMessagesOf(result'.value, NegativeOf(ArgumentsOf(call'.args)),
                           ArgumentsOf(call'.args))
          /\ Len(result'.value) = Cardinality(NegativeOf(ArgumentsOf(call'.args)))
          /\ (result'.value = <<>>) <=>
                 (\A i \in 1..3 : FGe(ArgumentsOf(call'.args)[i], FZero))
          /\ UNCHANGED <<d0, g, params>>]_vars

\* a negative D0 and a negative distance around a gradient of 0: two
\* messages, the one about D0 first
C20_Witness ==
    /\ pc = "returned"
    /\ call.op = "validate_inputs"
    /\ call.args = [d0 |-> FInt(-1), g |-> FZero, distance_km |-> FNeg(FDec(5, 10))]
    /\ result.kind = "return"
    /\ Len(result.value) = 2
    /\ result.value[1][1] = "D0 (Center Density) cannot be negative: "
    /\ result.value[2][1] = "Distance (x) cannot be negative: "

-----------------------------------------------------------------------------
(* src/far_calculation.py: the FAR utilities of the backend, which apply   *)
(* the same gradient formula to a land parcel, and the unit conversions of *)
(* the engine.  A number a caller passes as a Python int is the float of   *)
(* the same value here (5 and 5.0 compare and compute alike below 2^53).   *)
(* The Thai texts are not printable in a module: each is named by the      *)
(* source line that holds it.                                              *)

SQM_PER_RAI == FInt(1600)
DEFAULT_LEGAL_MAX_FAR == FInt(10)

\* class FARStatus: the value of each member
FARStatus ==
    [UNDER   |-> "far_calculation.py:29",
     OPTIMAL |-> "far_calculation.py:30",
     OVER    |-> "far_calculation.py:31"]

FARInputs(land_size_rai, proposed_gfa, d0_value, g_value, distance_km, legal_max_far) ==
    [land_size_rai |-> land_size_rai, proposed_gfa |-> proposed_gfa,
     d0 |-> d0_value, g |-> g_value, distance_km |-> distance_km,
     legal_max_far |-> legal_max_far]

FARCalculationError(code, message, message_thai) ==
    [type |-> "FARCalculationError", code |-> code,
     message |-> message, message_thai |-> message_thai]

\* round(x, 2): the exact value of x rounded to two decimals, ties to even,
\* then the float nearest to that decimal
RoundedHundredths(s, m, sh) ==
    FDiv(Canon(s, RoundQuotient(m, sh, BShr(m, sh)), 0), FInt(100))

Round2(x) ==
    IF FIsZero(x) \/ x.e >= 0 THEN x
    ELSE RoundedHundredths(x.s, BMulSmall(x.m, 100), -x.e)

\* FARResult.to_dict, lines 57-67
FARResultToDict(self) ==
    [proposedFar     |-> Round2(self.proposed_far),
     theoreticalFar  |-> Round2(self.theoretical_far),
     legalMaxFar     |-> Round2(self.legal_max_far),
     efficiencyScore |-> Round2(self.efficiency_score),
     status          |-> self.status,
     statusThai      |-> self.status_thai,
     landSizeSqm     |-> self.land_size_sqm]

\* FARCalculationError.to_dict, lines 78-85
FARErrorToDict(self) ==
    [error |-> TRUE, code |-> self.code,
     message |-> self.message, messageThai |-> self.message_thai]

\* the guards tested with the second before the first
FarGuardGfaFirst(inputs) ==
    IF FLt(inputs.proposed_gfa, FZero)
    THEN Some(FARCalculationError("ZERO_GFA", "Proposed GFA cannot be negative",
                                  "far_calculation.py:128"))
    ELSE IF FLe(inputs.land_size_rai, FZero)
    THEN Some(FARCalculationError("ZERO_LAND_SIZE", "Land size must be greater than 0",
                                  "far_calculation.py:120"))
    ELSE IF FLe(inputs.d0, FZero) \/ FLt(inputs.g, FZero) \/ FLt(inputs.distance_km, FZero)
    THEN Some(FARCalculationError("INVALID_PARAMS",
                                  "D0 must be positive, g and distance_km must be non-negative",
                                  "far_calculation.py:136"))
    ELSE None

\* lines 114-137: the error the guards raise, or None when all pass
FarGuard(inputs) ==
    IF FLe(inputs.land_size_rai, FZero)
    THEN Some(FARCalculationError("ZERO_LAND_SIZE", "Land size must be greater than 0",
                                  "far_calculation.py:120"))
    ELSE IF FLt(inputs.proposed_gfa, FZero)
    THEN Some(FARCalculationError("ZERO_GFA", "Proposed GFA cannot be negative",
                                  "far_calculation.py:128"))
    ELSE IF FLe(inputs.d0, FZero) \/ FLt(inputs.g, FZero) \/ FLt(inputs.distance_km, FZero)
    THEN Some(FARCalculationError("INVALID_PARAMS",
                                  "D0 must be positive, g and distance_km must be non-negative",
                                  "far_calculation.py:136"))
    ELSE None

\* line 150
EfficiencyScore(proposed_far, theoretical_far) ==
    IF FGt(theoretical_far, FZero) THEN FDiv(proposed_far, theoretical_far) ELSE FZero

\* the upper band closed one step too early: 1.2 itself is OVER
FarStatusBelowUpper(efficiency_score) ==
    IF FLt(efficiency_score, FDec(8, 10)) THEN "UNDER"
    ELSE IF FLt(efficiency_score, FDec(12, 10)) THEN "OPTIMAL"
    ELSE "OVER"

\* lines 152-158: the status calculate_far determines itself
FarStatus(efficiency_score) ==
    IF FLt(efficiency_score, FDec(8, 10)) THEN "UNDER"
    ELSE IF FLe(efficiency_score, FDec(12, 10)) THEN "OPTIMAL"
    ELSE "OVER"

\* lines 160-168
FARResult(inputs, land_size_sqm, proposed_far, theoretical_far, efficiency_score, status) ==
    [proposed_far     |-> proposed_far,
     theoretical_far  |-> theoretical_far,
     legal_max_far    |-> inputs.legal_max_far,
     efficiency_score |-> efficiency_score,
     status           |-> status,
     status_thai      |-> FARStatus[status],
     land_size_sqm    |-> land_size_sqm]

\* lines 139-168, from the two quotients' operands
FarOf(inputs, land_size_sqm, proposed_far, theoretical_far) ==
    FARResult(inputs, land_size_sqm, proposed_far, theoretical_far,
              EfficiencyScore(proposed_far, theoretical_far),
              FarStatus(EfficiencyScore(proposed_far, theoretical_far)))

FarOn(inputs, land_size_sqm) ==
    FarOf(inputs, land_size_sqm, FDiv(inputs.proposed_gfa, land_size_sqm),
          FMul(inputs.d0, MathExp(FMul(FNeg(inputs.g), inputs.distance_km))))

\* calculate_far, lines 89-168: the FARResult returned or the error raised
calculate_far(inputs) ==
    IF FarGuard(inputs).some THEN Raises(FarGuard(inputs).v)
    ELSE Returns(FarOn(inputs, FMul(inputs.land_size_rai, SQM_PER_RAI)))

\* the decay without the density it scales
TheoreticalFarUnscaled(d0_value, g_value, distance_km) ==
    MathExp(FMul(FNeg(g_value), distance_km))

\* calculate_theoretical_far, lines 172-178
calculate_theoretical_far(d0_value, g_value, distance_km) ==
    FMul(d0_value, MathExp(FMul(FNeg(g_value), distance_km)))

\* get_far_status, lines 181-194
get_far_status(efficiency_score) ==
    IF FLt(efficiency_score, FDec(8, 10)) THEN "UNDER"
    ELSE IF FLe(efficiency_score, FDec(12, 10)) THEN "OPTIMAL"
    ELSE "OVER"

\* lines 205-209, on the outcome of calculate_far
FarSafeOf(outcome) ==
    IF outcome.kind = "raise" THEN Returns(FARErrorToDict(outcome.exc))
    ELSE Returns(FARResultToDict(outcome.value))

\* calculate_far_safe, lines 197-209
calculate_far_safe(inputs) == FarSafeOf(calculate_far(inputs))

\* the factor of the other unit
ConvertRaiBy400(rai) == FMul(rai, FInt(400))

\* BertaudAuditEngine.convert_rai_to_sqm, lines 220-223
convert_rai_to_sqm(rai) == FMul(rai, FInt(1600))

\* BertaudAuditEngine.convert_wah_to_sqm, lines 225-228
convert_wah_to_sqm(wah) == FMul(wah, FInt(4))

-----------------------------------------------------------------------------
(* The inputs of the FAR utilities, and of the engine when nothing has     *)
(* validated what it was constructed with: __init__ (lines 10-26) prints   *)
(* warnings and stores any D0 and g.                                       *)

ConstructedD0s == EngineD0s \cup {FInt(-5)}
ConstructedGs == EngineGs \cup {FNeg(FDec(1, 10)), FDec(2, 10)}
RayDistances == {FInt(0), FInt(2), FInt(5), FInt(10)}

RayQueries ==
    {Query(x, p, None, z) :
        x \in RayDistances,
        p \in {FZero, FInt(6), FDec(135, 10)},
        z \in {None, Some(Str(<<"Y", "e", "l", "l", "o", "w">>))}}

TheoreticalFarQueries ==
    {[d0 |-> D, g |-> G, distance_km |-> x] :
        D \in ConstructedD0s, G \in ConstructedGs, x \in RayDistances}

\* efficiency scores at and next to every threshold of either status logic
EfficiencyScores ==
    {FZero, FDec(5, 10), FDec(7, 10), FSub(FDec(8, 10), FDec(1, 10)),
     FDec(75, 100), FDec(8, 10), FInt(1), FSub(FDec(12, 10), FDec(1, 10)),
     FDec(11, 10), FDec(115, 100), FDec(12, 10), FAdd(FDec(12, 10), XPow2(-52)),
     FDec(13, 10), FInt(5)}

\* parcels of 5 rai at distance 2 (the example of lines 215-221), and every
\* guard's failing values
FarInputsOf ==
    {FARInputs(land, gfa, D, G, x, DEFAULT_LEGAL_MAX_FAR) :
        land \in {FInt(-1), FZero, FInt(5)},
        gfa \in {FInt(-1), FZero, FInt(40000), FInt(56000), FInt(64000),
                 FInt(96000), FInt(104000)},
        D \in {FInt(-5), FZero, FInt(10)},
        G \in {FNeg(FDec(1, 10)), FZero, FDec(1, 10)},
        x \in {FInt(-2), FInt(2)}}

Areas == {FZero, FDec(1, 10), FInt(1), FDec(25, 10), FInt(5), FInt(10), FInt(400)}

-----------------------------------------------------------------------------
(* The FAR utilities and the engine side by side: every call is a pure     *)
(* function of its arguments and, for the engine, of D0 and g.             *)

InitFar ==
    /\ pc = "idle"
    /\ d0 \in ConstructedD0s
    /\ g \in ConstructedGs
    /\ params = None
    /\ call = None
    /\ result = None

CalculateOptimalDensityAlongRay ==
    /\ pc = "idle"
    /\ \E q \in RayQueries :
          /\ call' = [op |-> "calculate_optimal_density", args |-> q]
          /\ result' = Returns(calculate_optimal_density(d0, g, q))
    /\ pc' = "returned"
    /\ UNCHANGED <<d0, g, params>>

CalculateTheoreticalFar ==
    /\ pc = "idle"
    /\ \E q \in TheoreticalFarQueries :
          /\ call' = [op |-> "calculate_theoretical_far", args |-> q]
          /\ result' = Returns(calculate_theoretical_far(q.d0, q.g, q.distance_km))
    /\ pc' = "returned"
    /\ UNCHANGED <<d0, g, params>>

GetFarStatus ==
    /\ pc = "idle"
    /\ \E efficiency_score \in EfficiencyScores :
          /\ call' = [op |-> "get_far_status", args |-> [efficiency_score |-> efficiency_score]]
          /\ result' = Returns(get_far_status(efficiency_score))
    /\ pc' = "returned"
    /\ UNCHANGED <<d0, g, params>>

CalculateFar ==
    /\ pc = "idle"
    /\ \E inputs \in FarInputsOf :
          /\ call' = [op |-> "calculate_far", args |-> inputs]
          /\ result' = calculate_far(inputs)
    /\ pc' = "returned"
    /\ UNCHANGED <<d0, g, params>>

CalculateFarSafe ==
    /\ pc = "idle"
    /\ \E inputs \in FarInputsOf :
          /\ call' = [op |-> "calculate_far_safe", args |-> inputs]
          /\ result' = calculate_far_safe(inputs)
    /\ pc' = "returned"
    /\ UNCHANGED <<d0, g, params>>

ConvertRaiToSqm ==
    /\ pc = "idle"
    /\ \E rai \in Areas :
          /\ call' = [op |-> "convert_rai_to_sqm", args |-> [rai |-> rai]]
          /\ result' = Returns(convert_rai_to_sqm(rai))
    /\ pc' = "returned"
    /\ UNCHANGED <<d0, g, params>>

ConvertWahToSqm ==
    /\ pc = "idle"
    /\ \E wah \in Areas :
          /\ call' = [op |-> "convert_wah_to_sqm", args |-> [wah |-> wah]]
          /\ result' = Returns(convert_wah_to_sqm(wah))
    /\ pc' = "returned"
    /\ UNCHANGED <<d0, g, params>>

NextFar ==
    \/ CalculateOptimalDensityAlongRay
    \/ CalculateTheoreticalFar
    \/ GetFarStatus
    \/ CalculateFar
    \/ CalculateFarSafe
    \/ ConvertRaiToSqm
    \/ ConvertWahToSqm
    \/ Return

SpecFar == InitFar /\ [][NextFar]_vars

-----------------------------------------------------------------------------
(* Claims about the gradient formula, the unit conversions and the FAR     *)
(* utilities, checked under SpecFar.                                       *)

\* C21: the theoretical_density of every result calculate_optimal_density
\* returns is >= 0, for every engine that can be constructed and every
\* query.
C21_DensityNonNegative ==
    DensityReturned /\ result.kind = "return"
        => FGe(result.value.theoretical_density, FZero)

TheoreticalFarReturned == pc = "returned" /\ call.op = "calculate_theoretical_far"

\* density is D0 at distance 0 and wherever g = 0, and no density of the
\* same model further out, computed by at, exceeds it
IsGradientValue(density, D0, gradient, x, at(_)) ==
    /\ FIsZero(x) => density = D0
    /\ FIsZero(gradient) => density = D0
    /\ FLe(density, D0)
    /\ \A further \in RayDistances :
          /\ FLe(x, further) => FLe(at(further), density)
          /\ FLe(further, x) => FLe(density, at(further))

\* C22: for every D0 >= 0 and g >= 0 the theoretical density
\* D0 * e^(-g * x) computed by calculate_optimal_density and by
\* calculate_theoretical_far equals D0 at distance 0, is non-increasing in
\* the distance, and equals D0 at every distance when g = 0.
C22_GradientDecays ==
    /\ DensityReturned /\ FGe(d0, FZero) /\ FGe(g, FZero)
          => IsGradientValue(result.value.theoretical_density, d0, g, call.args.distance_km,
                             LAMBDA x : TheoreticalDensity(d0, g, x))
    /\ TheoreticalFarReturned /\ FGe(call.args.d0, FZero) /\ FGe(call.args.g, FZero)
          => IsGradientValue(result.value, call.args.d0, call.args.g, call.args.distance_km,
                             LAMBDA x : calculate_theoretical_far(call.args.d0, call.args.g, x))

\* D0 = 10 and g = 0.1 at 5 km: 6.065..., strictly between the densities at
\* 2 km and at 10 km
C22_Witness ==
    /\ TheoreticalFarReturned
    /\ call.args = [d0 |-> FInt(10), g |-> FDec(1, 10), distance_km |-> FInt(5)]
    /\ FLt(FDec(6065, 1000), result.value)
    /\ FLt(result.value, FDec(6066, 1000))
    /\ FLt(result.value, calculate_theoretical_far(FInt(10), FDec(1, 10), FInt(2)))
    /\ FLt(calculate_theoretical_far(FInt(10), FDec(1, 10), FInt(10)), result.value)

-----------------------------------------------------------------------------
(* The discounting of calculate_state_npv over the years, checked under    *)
(* SpecNpv.                                                                *)

\* the years y of the lease that have a year after them
YearsBeforeLast(p) == 1..(p.lease_term_years - 1)

\* C23 as stated: for every validated FinancialParams and every year y with
\* 1 <= y < lease_term_years, the discount factor of year y + 1 is strictly
\* greater than the factor of year y.
C23_FactorsStrictlyIncrease ==
    NpvReturned =>
        \A y \in YearsBeforeLast(params) :
            FGt(DiscountFactor(params, y + 1), DiscountFactor(params, y))

\* C23 as amended: the discount factor of year y + 1 is never smaller than
\* the factor of year y; it is strictly greater when the discount rate is
\* at least 2^-50, and every factor is 1 when the discount rate is 0.
C23_FactorsIncreaseWithRate ==
    NpvReturned =>
        \A y \in YearsBeforeLast(params) :
            /\ FGe(DiscountFactor(params, y + 1), DiscountFactor(params, y))
            /\ FGe(params.discount_rate, XPow2(-50))
                  => FGt(DiscountFactor(params, y + 1), DiscountFactor(params, y))
            /\ FIsZero(params.discount_rate)
                  => /\ DiscountFactor(params, y) = FInt(1)
                     /\ DiscountFactor(params, y + 1) = FInt(1)

\* three years at 3.5%: the factors 1.035, 1.071225, 1.108717875
C23_Witness ==
    /\ NpvReturned
    /\ params.lease_term_years = 3
    /\ params.discount_rate = FDec(35, 1000)
    /\ DiscountFactor(params, 1) = FDec(1035, 1000)
    /\ FLt(DiscountFactor(params, 1), DiscountFactor(params, 2))
    /\ FLt(DiscountFactor(params, 2), DiscountFactor(params, 3))
    /\ FClose(DiscountFactor(params, 3), FDec(1108717875, 1000000000))

-----------------------------------------------------------------------------
(* Concurrent callers.  Several threads call methods of the same engine    *)
(* and pass the same FinancialParams object.  Here pc, call and result are *)
(* functions of the thread; a call in progress keeps its local variables   *)
(* in call[t].locals, and d0, g and params are the shared objects, read at *)
(* the step whose line reads them.  Threads interleave between the reads   *)
(* of line 62 and between the iterations of the loops over the years.      *)

MaxThreads == 2
Threads == 1..MaxThreads

ConcurrentParams ==
    { FinancialParams(Kwargs(FInt(50), FInt(10), t, FDec(35, 1000), FInt(1000),
                             50, None, Some(1))).value : t \in {2, 3} }

ConcurrentDensityQueries ==
    { Query(FInt(5), FInt(6), None, None),
      Query(FInt(0), FInt(12), Some(FInt(8)), Some(Str(<<"Y", "e", "l", "l", "o", "w">>))) }

ConcurrentPolycentricQueries ==
    { [distance_map |-> << <<"CBD_1", FInt(5)>>, <<"CBD_2", FInt(2)>> >>,
       centers_config |-> Centers] }

ConcurrentCostQueries ==
    { [proposed_cost_per_sqm |-> FInt(c), building_type |-> Str(<<"l", "o", "w", "-", "r", "i", "s", "e">>),
       province |-> Some(Str(<<"P", "H", "U", "K", "E", "T">>))] : c \in {15000, 36001} }

InitConcurrent ==
    /\ pc = [t \in Threads |-> "idle"]
    /\ d0 = FInt(10)
    /\ g = FDec(1, 10)
    /\ params \in ConcurrentParams
    /\ call = [t \in Threads |-> None]
    /\ result = [t \in Threads |-> None]

\* thread t enters op with args and the locals its first lines set
Enters(t, op, args, locals) ==
    /\ pc[t] = "idle"
    /\ pc' = [pc EXCEPT ![t] = "running"]
    /\ call' = [call EXCEPT ![t] = [op |-> op, args |-> args, locals |-> locals]]
    /\ UNCHANGED result

\* thread t goes on with new locals
Continues(t, locals) ==
    /\ pc' = pc
    /\ call' = [call EXCEPT ![t].locals = locals]
    /\ UNCHANGED result

\* thread t returns value
ReturnsTo(t, value) ==
    /\ pc' = [pc EXCEPT ![t] = "returned"]
    /\ result' = [result EXCEPT ![t] = Returns(value)]

Running(t, op) == pc[t] = "running" /\ call[t].op = op

\* calculate_optimal_density, line 62, left operand: self.d0 is read
DensityReadsD0 ==
    \E t \in Threads, q \in ConcurrentDensityQueries :
        /\ Enters(t, "calculate_optimal_density", q, [self_d0 |-> d0])
        /\ UNCHANGED <<d0, g, params>>

\* the rest of line 62, where self.g is read, to the return of line 154
DensityReturns ==
    \E t \in Threads :
        /\ Running(t, "calculate_optimal_density")
        /\ ReturnsTo(t, calculate_optimal_density(call[t].locals.self_d0, g, call[t].args))
        /\ UNCHANGED <<d0, g, params, call>>

\* calculate_polycentric_density reads its two arguments only
PolycentricCall ==
    \E t \in Threads, q \in ConcurrentPolycentricQueries :
        /\ pc[t] = "idle"
        /\ call' = [call EXCEPT ![t] = [op |-> "calculate_polycentric_density", args |-> q]]
        /\ ReturnsTo(t, calculate_polycentric_density(q.distance_map, q.centers_config))
        /\ UNCHANGED <<d0, g, params>>

\* validate_construction_cost reads its arguments and its own two tables
CostCall ==
    \E t \in Threads, q \in ConcurrentCostQueries :
        /\ pc[t] = "idle"
        /\ call' = [call EXCEPT ![t] = [op |-> "validate_construction_cost", args |-> q]]
        /\ ReturnsTo(t, validate_construction_cost(q.proposed_cost_per_sqm, q.building_type,
                                                   q.province.v))
        /\ UNCHANGED <<d0, g, params>>

\* the rent of the loop written back into the parameters
ParamsEscalatedInPlace(p, current_rent) == [p EXCEPT !.initial_annual_rent = current_rent]

\* lines 45-53 and 146-149 store into local variables only: the
\* FinancialParams object after an iteration that computed current_rent
ParamsAfterYear(p, current_rent) == p

\* calculate_state_npv, lines 36-43
NpvEnters ==
    \E t \in Threads :
        /\ Enters(t, "calculate_state_npv", "params",
                  [npv |-> FAdd(FZero, params.upfront_fee),
                   current_rent |-> params.initial_annual_rent,
                   lease_term |-> params.lease_term_years,
                   year |-> 0])
        /\ UNCHANGED <<d0, g, params>>

\* lines 45-53: the iteration of the next year
NpvYearOf(locals, year, current_rent) ==
    [locals EXCEPT !.year = year,
                   !.current_rent = current_rent,
                   !.npv = FAdd(locals.npv, FDiv(current_rent, DiscountFactor(params, year)))]

NpvYear ==
    \E t \in Threads :
        /\ Running(t, "calculate_state_npv")
        /\ call[t].locals.year < call[t].locals.lease_term
        /\ Continues(t, NpvYearOf(call[t].locals, call[t].locals.year + 1,
                                  EscalatedRent(params, call[t].locals.year + 1,
                                                call[t].locals.current_rent)))
        /\ params' = ParamsAfterYear(params, call'[t].locals.current_rent)
        /\ UNCHANGED <<d0, g>>

\* lines 55-68, with the local lease_term of line 43
NpvTerminal(p, npv, lease_term) ==
    FAdd(npv,
         FDiv(IF lease_term < p.asset_useful_life_years
              THEN FMul(p.investment_cost,
                        FDiv(FInt(p.asset_useful_life_years - lease_term),
                             FInt(p.asset_useful_life_years)))
              ELSE FZero,
              FPow(FAdd(FInt(1), p.discount_rate), lease_term)))

NpvReturns ==
    \E t \in Threads :
        /\ Running(t, "calculate_state_npv")
        /\ call[t].locals.year = call[t].locals.lease_term
        /\ ReturnsTo(t, NpvTerminal(params, call[t].locals.npv, call[t].locals.lease_term))
        /\ UNCHANGED <<d0, g, params, call>>

\* calculate_return_on_asset, lines 143-146; range() takes its end once
RoaEnters ==
    \E t \in Threads :
        /\ Enters(t, "calculate_return_on_asset", "params",
                  [current_rent |-> params.initial_annual_rent,
                   total_nominal_rent |-> FZero,
                   last_year |-> params.lease_term_years,
                   year |-> 0])
        /\ UNCHANGED <<d0, g, params>>

\* lines 146-149
RoaYearOf(locals, year, current_rent) ==
    [locals EXCEPT !.year = year,
                   !.current_rent = current_rent,
                   !.total_nominal_rent = FAdd(locals.total_nominal_rent, current_rent)]

RoaYear ==
    \E t \in Threads :
        /\ Running(t, "calculate_return_on_asset")
        /\ call[t].locals.year < call[t].locals.last_year
        /\ Continues(t, RoaYearOf(call[t].locals, call[t].locals.year + 1,
                                  EscalatedRent(params, call[t].locals.year + 1,
                                                call[t].locals.current_rent)))
        /\ params' = ParamsAfterYear(params, call'[t].locals.current_rent)
        /\ UNCHANGED <<d0, g>>

\* lines 158-159, from the total_nominal_rent of the loop
AverageAnnualBenefitOf(p, total_nominal_rent) ==
    FDiv(FAdd(FAdd(p.upfront_fee, total_nominal_rent), ResidualValue(p)),
         FInt(p.lease_term_years))

\* lines 151-172
RoaReturns ==
    \E t \in Threads :
        /\ Running(t, "calculate_return_on_asset")
        /\ call[t].locals.year = call[t].locals.last_year
        /\ ReturnsTo(t, RoaOf(params, AverageAnnualBenefitOf(params, call[t].locals.total_nominal_rent)))
        /\ UNCHANGED <<d0, g, params, call>>

\* the caller in thread t takes the result
TakesResult ==
    \E t \in Threads :
        /\ pc[t] = "returned"
        /\ pc' = [pc EXCEPT ![t] = "idle"]
        /\ call' = [call EXCEPT ![t] = None]
        /\ result' = [result EXCEPT ![t] = None]
        /\ UNCHANGED <<d0, g, params>>

NextConcurrent ==
    \/ DensityReadsD0
    \/ DensityReturns
    \/ PolycentricCall
    \/ CostCall
    \/ NpvEnters
    \/ NpvYear
    \/ NpvReturns
    \/ RoaEnters
    \/ RoaYear
    \/ RoaReturns
    \/ TakesResult

SpecConcurrent == InitConcurrent /\ [][NextConcurrent]_vars

-----------------------------------------------------------------------------
(* Claims about concurrent callers, checked under SpecConcurrent.          *)

\* what the call c returns when it runs alone on the engine and the
\* parameters given
AloneResult(c, D0, gradient, p) ==
    CASE c.op = "calculate_optimal_density" -> calculate_optimal_density(D0, gradient, c.args)
      [] c.op = "calculate_polycentric_density" ->
             calculate_polycentric_density(c.args.distance_map, c.args.centers_config)
      [] c.op = "calculate_state_npv" -> calculate_state_npv(p)
      [] c.op = "calculate_return_on_asset" -> calculate_return_on_asset(p)
      [] c.op = "validate_construction_cost" ->
             validate_construction_cost(c.args.proposed_cost_per_sqm, c.args.building_type,
                                        c.args.province.v)

\* C24: no step of calculate_optimal_density, calculate_polycentric_density,
\* calculate_state_npv, calculate_return_on_asset or
\* validate_construction_cost changes the engine's D0 and g or any field
\* of the FinancialParams, and under every interleaving of the threads each
\* call, at the step it returns, returns what it returns when it runs alone.
C24_ReadOnly ==
    [][/\ d0' = d0
       /\ g' = g
       /\ params' = params
       /\ \A t \in Threads :
             pc[t] # "returned" /\ pc'[t] = "returned"
                 => result'[t] = Returns(AloneResult(call'[t], d0', g', params'))]_vars

\* one thread is between two years of its NPV loop while another has read
\* self.d0 and not yet self.g
C24_Witness ==
    /\ pc[1] = "running"
    /\ call[1].op = "calculate_state_npv"
    /\ call[1].locals.year = 1
    /\ call[1].locals.lease_term = 3
    /\ pc[2] = "running"
    /\ call[2].op = "calculate_optimal_density"
    /\ call[2].locals.self_d0 = d0

-----------------------------------------------------------------------------
(* Claims about the unit conversions and the FAR utilities, checked under  *)
(* SpecFar.                                                                *)

ConversionReturned(op) == pc = "returned" /\ call.op = op

\* value is a times b as binary64 gives it: the exact product when that has
\* at most 53 significant bits, and otherwise the float within half a unit
\* in the last place of it
IsProduct(value, a, b) ==
    IF BitLen(XMul(a, b).m) <= MantBits THEN value = XMul(a, b)
    ELSE /\ BitLen(value.m) <= MantBits
         /\ FLe(FAbs(XSub(value, XMul(a, b))),
                XPow2(value.e + BitLen(value.m) - MantBits - 1))

\* C25: convert_rai_to_sqm(rai) is rai * 1600 and convert_wah_to_sqm(wah)
\* is wah * 4 for every input, the products of the floats and nothing
\* rounded further (1 rai gives 1600, 10 wah give 40); so a rai is 400
\* square wah under the two conversions.
C25_Conversions ==
    /\ ConversionReturned("convert_rai_to_sqm")
          => /\ IsProduct(result.value, call.args.rai, FInt(1600))
             /\ call.args.rai = FInt(1) => result.value = FInt(1600)
             /\ result.value = convert_wah_to_sqm(FMul(FInt(400), call.args.rai))
    /\ ConversionReturned("convert_wah_to_sqm")
          => /\ result.value = XMul(call.args.wah, FInt(4))
             /\ call.args.wah = FInt(10) => result.value = FInt(40)
             /\ \A rai \in Areas :
                   call.args.wah = FMul(FInt(400), rai)
                       => result.value = convert_rai_to_sqm(rai)

\* 2.5 rai are 4000 square metres, as are the 1000 square wah they hold
C25_Witness ==
    /\ ConversionReturned("convert_rai_to_sqm")
    /\ call.args.rai = FDec(25, 10)
    /\ result.value = FInt(4000)
    /\ convert_wah_to_sqm(FInt(1000)) = FInt(4000)

FarReturned(op) == pc = "returned" /\ call.op = op

\* the code of the first guard of the claim's order that the inputs fail,
\* or None when they pass all three
ClaimCode(inputs) ==
    IF FLe(inputs.land_size_rai, FZero) THEN Some("ZERO_LAND_SIZE")
    ELSE IF FLt(inputs.proposed_gfa, FZero) THEN Some("ZERO_GFA")
    ELSE IF \/ FLe(inputs.d0, FZero)
            \/ FLt(inputs.g, FZero)
            \/ FLt(inputs.distance_km, FZero) THEN Some("INVALID_PARAMS")
    ELSE None

\* C26: calculate_far raises a FARCalculationError whose code is that of
\* the first failing guard in the order ZERO_LAND_SIZE (land_size_rai <= 0),
\* ZERO_GFA (proposed_gfa < 0), INVALID_PARAMS (d0 <= 0 or g < 0 or
\* distance_km < 0), and returns a result otherwise; calculate_far_safe
\* never raises and returns a dict with error = true and that code exactly
\* when calculate_far raises, and the dict of the result otherwise.
C26_GuardsInOrder ==
    /\ FarReturned("calculate_far")
          => IF ClaimCode(call.args).some
             THEN /\ result.kind = "raise"
                  /\ result.exc.type = "FARCalculationError"
                  /\ result.exc.code = ClaimCode(call.args).v
             ELSE /\ result.kind = "return"
                  /\ result.value.land_size_sqm = XMul(call.args.land_size_rai, FInt(1600))
    /\ FarReturned("calculate_far_safe")
          => /\ result.kind = "return"
             /\ IF ClaimCode(call.args).some
                THEN /\ "error" \in DOMAIN result.value
                     /\ result.value.error = TRUE
                     /\ result.value.code = ClaimCode(call.args).v
                     /\ calculate_far(call.args).kind = "raise"
                     /\ result.value.message = calculate_far(call.args).exc.message
                ELSE /\ "error" \notin DOMAIN result.value
                     /\ calculate_far(call.args).kind = "return"
                     /\ result.value = FARResultToDict(calculate_far(call.args).value)

\* no land, a negative floor area and a negative D0 at once: the safe
\* wrapper reports the land
C26_Witness ==
    /\ FarReturned("calculate_far_safe")
    /\ call.args.land_size_rai = FZero
    /\ call.args.proposed_gfa = FInt(-1)
    /\ call.args.d0 = FInt(-5)
    /\ result = Returns([error |-> TRUE, code |-> "ZERO_LAND_SIZE",
                         message |-> "Land size must be greater than 0",
                         messageThai |-> "far_calculation.py:120"])

\* the status of calculate_optimal_density for an efficiency index where
\* no zone colour is given
EngineStatus(efficiency_index) ==
    DynamicStatus(GranularStatus(efficiency_index, UpperLimit(None)),
                  efficiency_index, UpperLimit(None))

\* the band of three that the claim assigns to a status of five
Coarsened(status) ==
    CASE status \in {"Under-utilization", "Low Density Warning"} -> "UNDER"
      [] status \in {"Optimal", "High Density Warning"} -> "OPTIMAL"
      [] status = "Over-densification" -> "OVER"

\* C27: in the default (non-yellow) context and for every efficiency index
\* >= 0, get_far_status and the status computed inside calculate_far are
\* UNDER iff the status of calculate_optimal_density is 'Under-utilization'
\* or 'Low Density Warning', OVER iff it is 'Over-densification', and
\* OPTIMAL iff it is 'Optimal' or 'High Density Warning'; get_far_status
\* and calculate_far classify every index identically.
C27_ThreeBandsCoarsenFive ==
    /\ FarReturned("get_far_status") /\ FGe(call.args.efficiency_score, FZero)
          => /\ result.value = Coarsened(EngineStatus(call.args.efficiency_score))
             /\ result.value = FarStatus(call.args.efficiency_score)
    /\ FarReturned("calculate_far") /\ result.kind = "return"
          => /\ FGe(result.value.efficiency_score, FZero)
             /\ result.value.status = get_far_status(result.value.efficiency_score)
             /\ result.value.status = Coarsened(EngineStatus(result.value.efficiency_score))
    /\ DensityReturned /\ ~IsYellow(call.args.zone_color)
                       /\ FGe(result.value.efficiency_index, FZero)
          => get_far_status(result.value.efficiency_index) = Coarsened(result.value.status)

\* an index of exactly 1.2: OPTIMAL of three, 'High Density Warning' of five
C27_Witness ==
    /\ FarReturned("get_far_status")
    /\ call.args.efficiency_score = FDec(12, 10)
    /\ result.value = "OPTIMAL"
    /\ EngineStatus(FDec(12, 10)) = "High Density Warning"

-----------------------------------------------------------------------------
(* A claim about locations without theoretical demand, checked under       *)
(* SpecDensity.                                                            *)

\* C28: whenever the theoretical density is 0, calculate_optimal_density
\* reports efficiency_index 0 and status 'Under-utilization', for every
\* proposed density (0 and the largest included) and every zone colour:
\* never 'Optimal', never 'Over-densification'.
C28_NoDemandIsUnderUtilization ==
    DensityReturned /\ FIsZero(result.value.theoretical_density)
        => /\ result.value.efficiency_index = FZero
           /\ result.value.status = "Under-utilization"
           /\ result.value.status \notin {"Optimal", "Over-densification"}

\* the largest proposal of the model in a yellow zone, on an engine of
\* D0 = 0
C28_Witness ==
    /\ DensityReturned
    /\ FIsZero(d0)
    /\ call.args.proposed_density = FDiv(FInt(MaxProposedHalves), FInt(2))
    /\ IsYellow(call.args.zone_color)
    /\ FIsZero(result.value.theoretical_density)
    /\ result.value.status = "Under-utilization"

====
